---- MODULE Spec2Model ----
(***************************************************************************)
(* Model of the retrieval-and-recommendation engine of the Expression      *)
(* Atlas tools: ExperimentVectorSearch (vector_search.py), the multi-turn  *)
(* SmartChat coordinator (smart_chat.py), the download of the API          *)
(* (expression_atlas.py) and the file identification of the MCP server     *)
(* (mcp_server.py).                                                        *)
(*                                                                         *)
(* A Python str is a sequence of one-character strings; None and a pandas  *)
(* NaN cell are the two sentinels below (no sequence of characters equals  *)
(* them).                                                                  *)
(***************************************************************************)
EXTENDS Integers, Sequences, FiniteSets, TLC

None == <<"None">>
NaN == <<"NaN">>

(***************************************************************************)
(* Bounds of the model.                                                    *)
(***************************************************************************)
MaxBaselineRows == 2
MaxTopK == 2

(***************************************************************************)
(* Python string helpers.                                                  *)
(***************************************************************************)
UpperChars == <<"A","B","C","D","E","F","G","H","I","J","K","L","M",
                "N","O","P","Q","R","S","T","U","V","W","X","Y","Z">>
LowerChars == <<"a","b","c","d","e","f","g","h","i","j","k","l","m",
                "n","o","p","q","r","s","t","u","v","w","x","y","z">>
DigitChars == <<"0","1","2","3","4","5","6","7","8","9">>

\* the characters of the model in ASCII order
Alphabet == <<" ", ",", "-", ".">> \o DigitChars \o UpperChars \o <<"_">> \o LowerChars

Range(seq) == {seq[i] : i \in DOMAIN seq}

\* the element of a one-element set: The({e(x) : x \in {v}}) is e with x
\* standing for the value of v
The(S) == CHOOSE r \in S : TRUE

CharSet == Range(Alphabet)

\* the character code order: the position in Alphabet
OrdOf == [c \in CharSet |-> CHOOSE i \in DOMAIN Alphabet : Alphabet[i] = c]

\* str.lower(), one character
LowerOf ==
  [c \in CharSet |->
     IF \E i \in DOMAIN UpperChars : UpperChars[i] = c
     THEN LowerChars[CHOOSE i \in DOMAIN UpperChars : UpperChars[i] = c]
     ELSE c]

\* str.lower()
Lower(s) == [i \in DOMAIN s |-> LowerOf[s[i]]]

\* str(x) of a cell: str(float('nan')) is 'nan', str(None) is 'None'
Str(v) == IF v = NaN THEN <<"n","a","n">>
          ELSE IF v = None THEN <<"N","o","n","e">>
          ELSE v

\* Python truthiness of an Optional[str] or of a cell (a NaN float is truthy)
Truthy(v) == v # None /\ v # <<>>

\* `sub in s`
Contains(s, sub) ==
  \E i \in 0..(Len(s) - Len(sub)) : SubSeq(s, i + 1, i + Len(sub)) = sub

\* str.replace(',', ' ')
ReplaceComma(s) == [i \in DOMAIN s |-> IF s[i] = "," THEN " " ELSE s[i]]

RECURSIVE Join(_)
\* ' '.join(parts)
Join(parts) ==
  IF parts = <<>> THEN <<>>
  ELSE IF Len(parts) = 1 THEN parts[1]
  ELSE parts[1] \o <<" ">> \o Join(Tail(parts))

\* [p for p in parts if keep(p)]
SelectParts(parts) == SelectSeq(parts, LAMBDA p : p # <<>> /\ Lower(p) # <<"n","a","n">>)

WordChars == Range(UpperChars) \cup Range(LowerChars) \cup Range(DigitChars) \cup {"_"}

\* a character the regular expression \w matches
IsWordChar(c) == c \in WordChars

BASELINE == <<"b","a","s","e","l","i","n","e">>
DIFFERENTIAL == <<"d","i","f","f","e","r","e","n","t","i","a","l">>

(***************************************************************************)
(* SmartChatParser.parse_user_input.  The lookup tables hold the entries   *)
(* of the source tables that occur in the inputs of the model, in the      *)
(* order of the source.                                                    *)
(***************************************************************************)
Letters == Range(UpperChars) \cup Range(LowerChars)
Digits == Range(DigitChars)

\* str.upper()
Upper(s) ==
  [i \in DOMAIN s |->
     IF \E k \in DOMAIN LowerChars : LowerChars[k] = s[i]
     THEN UpperChars[CHOOSE k \in DOMAIN LowerChars : LowerChars[k] = s[i]]
     ELSE s[i]]

\* s[i..d] is a match of E-[A-Z]+-\d+ (re.IGNORECASE) that the greedy
\* \d+ cannot extend
IsIdSpan(s, i, d) ==
  /\ LowerOf[s[i]] = "e"
  /\ i + 1 <= Len(s)
  /\ s[i + 1] = "-"
  /\ \E l \in (i + 2)..(d - 2) :
       /\ \A k \in (i + 2)..l : s[k] \in Letters
       /\ s[l + 1] = "-"
       /\ \A k \in (l + 2)..d : s[k] \in Digits
  /\ (d = Len(s) \/ s[d + 1] \notin Digits)

\* a parser that finds no experiment id
FindNoExperimentId(s) == None

\* re.search(r'E-[A-Z]+-\d+', user_input, re.IGNORECASE): group(0).upper()
\* of the leftmost match, or None
FindExperimentId(s) ==
  The({IF spans = {} THEN None
       ELSE The({Upper(SubSeq(s, m[1], m[2])) :
                   m \in {m \in spans : \A o \in spans : m[1] <= o[1]}}) :
         spans \in {{m \in (DOMAIN s) \X (DOMAIN s) : IsIdSpan(s, m[1], m[2])}}})

HOMO_SAPIENS == <<"h","o","m","o"," ","s","a","p","i","e","n","s">>
MUS_MUSCULUS == <<"m","u","s"," ","m","u","s","c","u","l","u","s">>
RATTUS_NORVEGICUS == <<"r","a","t","t","u","s"," ","n","o","r","v","e","g","i","c","u","s">>

SPECIES_MAP ==
  << <<<<"h","u","m","a","n">>, HOMO_SAPIENS>>,
     <<<<"m","o","u","s","e">>, MUS_MUSCULUS>>,
     <<MUS_MUSCULUS, MUS_MUSCULUS>>,
     <<<<"r","a","t">>, RATTUS_NORVEGICUS>> >>

TISSUE_KEYWORDS == {<<"l","e","a","f">>, <<"r","o","o","t">>, <<"b","r","a","i","n">>}

EXPERIMENT_TYPE_KEYWORDS ==
  << <<"baseline", {<<"b","a","s","e","l","i","n","e">>,
                    <<"n","o","r","m","a","l">>,
                    <<"t","i","s","s","u","e">>}>>,
     <<"differential", {<<"d","i","f","f","e","r","e","n","t","i","a","l">>,
                        <<"d","i","s","e","a","s","e">>,
                        <<"t","r","e","a","t","m","e","n","t">>,
                        <<"c","a","n","c","e","r">>}>> >>

DownloadWords == {<<"d","o","w","n","l","o","a","d">>, <<"g","e","t">>}
BrowseWords == {<<"b","r","o","w","s","e">>, <<"v","i","e","w">>}

\* every order in which a set can be iterated
Orders(S) ==
  {q \in [1..Cardinality(S) -> S] : \A i, j \in 1..Cardinality(S) : q[i] = q[j] => i = j}

\* steps 2 to 5 of parse_user_input, for the lowercased input and the
\* experiment id found in step 1
ParseLowered(user_input_lower, experiment_id) ==
  LET hits == {k \in DOMAIN SPECIES_MAP : Contains(user_input_lower, SPECIES_MAP[k][1])}
      typed(k) == \E kw \in EXPERIMENT_TYPE_KEYWORDS[k][2] : Contains(user_input_lower, kw)
      found == {kw \in TISSUE_KEYWORDS : Contains(user_input_lower, kw)}
  IN  {[set |-> TRUE,
        species |-> IF hits = {} THEN None
                    ELSE SPECIES_MAP[CHOOSE k \in hits : \A h \in hits : k <= h][2],
        keywords |-> keywords,
        experiment_type |-> IF typed(1) THEN BASELINE
                            ELSE IF typed(2) THEN DIFFERENTIAL
                            ELSE BASELINE,
        experiment_id |-> experiment_id,
        intent |-> IF \E w \in DownloadWords : Contains(user_input_lower, w) THEN "download"
                   ELSE IF \E w \in BrowseWords : Contains(user_input_lower, w) THEN "browse"
                   ELSE IF experiment_id # None THEN "download"
                   ELSE "search"] : keywords \in Orders(found)}

\* the dicts parse_user_input can return: one per iteration order of the
\* set TISSUE_KEYWORDS, which Python does not fix
ParseUserInput(user_input) ==
  ParseLowered(Lower(user_input), FindExperimentId(user_input))

\* SmartChat.current_query = None
NoQuery ==
  [set |-> FALSE, species |-> None, keywords |-> <<>>, experiment_type |-> None,
   experiment_id |-> None, intent |-> ""]

\* str.strip()
Strip(s) ==
  IF \A i \in DOMAIN s : s[i] = " " THEN <<>>
  ELSE LET a == CHOOSE i \in DOMAIN s : s[i] # " " /\ \A k \in 1..(i - 1) : s[k] = " "
           b == CHOOSE i \in DOMAIN s : s[i] # " " /\ \A k \in (i + 1)..Len(s) : s[k] = " "
       IN  SubSeq(s, a, b)

\* int(s) accepts an optional sign followed by decimal digits
IsIntLiteral(s) ==
  LET body == IF s # <<>> /\ Head(s) = "-" THEN Tail(s) ELSE s
  IN  body # <<>> /\ \A i \in DOMAIN body : body[i] \in Digits

DigitValue(c) == (CHOOSE i \in DOMAIN DigitChars : DigitChars[i] = c) - 1

RECURSIVE Decimal(_)
Decimal(body) ==
  IF body = <<>> THEN 0
  ELSE 10 * Decimal(SubSeq(body, 1, Len(body) - 1)) + DigitValue(body[Len(body)])

\* int(s) of a literal
IntValue(s) == IF Head(s) = "-" THEN 0 - Decimal(Tail(s)) ELSE Decimal(s)

\* a query that names the keywords before the species
KeywordQueryKeywordsFirst(species, keywords) ==
  Join(keywords \o (IF Truthy(species) THEN <<species>> ELSE <<>>))

\* the query search_by_keywords builds
KeywordQuery(species, keywords) ==
  Join((IF Truthy(species) THEN <<species>> ELSE <<>>) \o keywords)

(***************************************************************************)
(* The inputs of the model: the rows the metadata files can hold and the   *)
(* arguments search is called with.                                        *)
(***************************************************************************)
AccA1 == <<"E","-","A","-","1">>
AccA2 == <<"E","-","A","-","2">>
AccB3 == <<"E","-","B","-","3">>

BaselineRowSet ==
  {[accession |-> AccA1, species |-> <<"M","u","s"," ","m","u","s","c","u","l","u","s">>,
    description |-> <<"l","e","a","f">>, factors |-> <<"a","g","e",",","s","e","x">>],
   [accession |-> AccA2, species |-> <<"m","u","s"," ","m","u","s","c","u","l","u","s">>,
    description |-> NaN, factors |-> NaN]}

DifferentialRowSet ==
  {[accession |-> AccB3, species |-> <<"Z","e","a"," ","m","a","y","s">>,
    description |-> NaN, factors |-> <<"s","e","x">>]}

SeqsUpTo(S, n) == UNION {[1..k -> S] : k \in 0..n}

MissingFile == [exists |-> FALSE, rows |-> <<>>]

BaselineFiles ==
  {MissingFile} \cup {[exists |-> TRUE, rows |-> r] : r \in SeqsUpTo(BaselineRowSet, MaxBaselineRows)}

DifferentialFiles ==
  {MissingFile} \cup {[exists |-> TRUE, rows |-> r] : r \in SeqsUpTo(DifferentialRowSet, 1)}

Installs == {"ok", "no_module", "load_error"}

Queries == {<<>>, <<"m","u","s"," ","m","u","s","c","u","l","u","s"," ","l","e","a","f">>}

\* what the user types in a turn of the chat
UserInputs ==
  {<<"m","o","u","s","e"," ","l","e","a","f">>,
   <<"r","a","t">>,
   <<"g","e","t"," ","e","-","a","-","1">>,
   <<"1">>, <<"2">>, <<"5">>,
   <<" ","B","a","c","k"," ">>, <<"n","e","w">>, <<"c","a","n","c","e","l">>,
   <<"y","e","s">>, <<"Y">>, <<"d","o","w","n","l","o","a","d">>,
   <<"n","o">>, <<"N">>, <<"s","k","i","p">>,
   <<"m","a","y","b","e">>}

\* parse_user_input of these inputs, computed once
ParseOf == [user_input \in UserInputs |-> ParseUserInput(user_input)]

\* the queries the chat hands to the ranker for these inputs
ChatQueries ==
  {KeywordQuery(parsed.species, parsed.keywords) :
     parsed \in UNION {ParseOf[u] : u \in UserInputs}}
SpeciesFilters == {None, <<"M","U">>, <<"z","e","a">>}
TypeFilters == {None, BASELINE, DIFFERENTIAL}

(***************************************************************************)
(* ExperimentVectorSearch._load_experiments                                *)
(***************************************************************************)
\* the dict appended for one row of a file
LoadRow(row, type) ==
  [accession |-> row.accession,
   type |-> type,
   species |-> row.species,
   description |-> IF row.description # NaN THEN row.description ELSE <<>>,
   factors |-> IF row.factors # NaN THEN row.factors ELSE <<>>]

\* the rows one file contributes: none when the file does not exist
LoadRows(csv, type) ==
  IF csv.exists
  THEN [i \in DOMAIN csv.rows |-> LoadRow(csv.rows[i], type)]
  ELSE <<>>

\* a loader that reads the differential file first
LoadExperimentsDifferentialFirst(baseline_file, differential_file) ==
  LoadRows(differential_file, DIFFERENTIAL) \o LoadRows(baseline_file, BASELINE)

LoadExperiments(baseline_file, differential_file) ==
  LoadRows(baseline_file, BASELINE) \o LoadRows(differential_file, DIFFERENTIAL)

\* every record a file of the model can contribute
ExperimentUniverse ==
  {LoadRow(r, BASELINE) : r \in BaselineRowSet}
    \cup {LoadRow(r, DIFFERENTIAL) : r \in DifferentialRowSet}

(***************************************************************************)
(* ExperimentVectorSearch._create_searchable_text                          *)
(***************************************************************************)
CreateSearchableText(exp) ==
  LET parts == <<Str(exp.species), Str(exp.description), Str(exp.type)>>
      withFactors == IF Truthy(exp.factors)
                     THEN Append(parts, ReplaceComma(Str(exp.factors)))
                     ELSE parts
  IN  Join(SelectParts(withFactors))

\* the searchable texts of the records of the model, computed once
TextOf == [exp \in ExperimentUniverse |-> CreateSearchableText(exp)]

\* texts = [self._create_searchable_text(exp) for exp in self.experiments]
Texts(experiments) ==
  [i \in DOMAIN experiments |->
     IF experiments[i] \in ExperimentUniverse
     THEN TextOf[experiments[i]]
     ELSE CreateSearchableText(experiments[i])]

\* every text the model tokenizes
TextUniverse == {TextOf[exp] : exp \in ExperimentUniverse} \cup Queries \cup ChatQueries

(***************************************************************************)
(* sklearn TfidfVectorizer(max_features=1000, ngram_range=(1, 2)): the     *)
(* analyzer lowercases, takes the maximal runs of two or more word         *)
(* characters as tokens and adds the bigrams of consecutive tokens; the    *)
(* vocabulary is the sorted set of terms, one matrix column per term.      *)
(* The corpora of this model hold far fewer than max_features terms, so    *)
(* the cap never drops a term.                                             *)
(***************************************************************************)
max_features == 1000

RECURSIVE TokenScan(_, _, _)
\* tokens of the lowercased text s: cur is the run of word characters being read
TokenScan(s, cur, acc) ==
  IF s = <<>>
  THEN IF Len(cur) >= 2 THEN Append(acc, cur) ELSE acc
  ELSE IF IsWordChar(Head(s))
       THEN TokenScan(Tail(s), Append(cur, Head(s)), acc)
       ELSE TokenScan(Tail(s), <<>>, IF Len(cur) >= 2 THEN Append(acc, cur) ELSE acc)

TokenizeText(text) == TokenScan(Lower(text), <<>>, <<>>)

\* the tokens of the texts of the model, computed once
TokensOf == [text \in TextUniverse |-> TokenizeText(text)]

Tokenize(text) == IF text \in TextUniverse THEN TokensOf[text] ELSE TokenizeText(text)

\* unigrams followed by bigrams, as the analyzer yields them
Analyze(text) ==
  The({toks \o [i \in 1..(Len(toks) - 1) |-> toks[i] \o <<" ">> \o toks[i + 1]] :
         toks \in {Tokenize(text)}})

\* lexicographic order of strings by character code
LexLess(a, b) ==
  \E i \in 1..Len(b) :
     /\ i <= Len(a) + 1
     /\ \A j \in 1..(i - 1) : a[j] = b[j]
     /\ (i = Len(a) + 1 \/ OrdOf[a[i]] < OrdOf[b[i]])

RECURSIVE SortTerms(_)
SortTerms(S) ==
  IF S = {} THEN <<>>
  ELSE LET m == CHOOSE x \in S : \A y \in S \ {x} : LexLess(x, y)
       IN  <<m>> \o SortTerms(S \ {m})

CountOf(term, seq) == Cardinality({i \in DOMAIN seq : seq[i] = term})

\* smoothed idf, ln((1 + n) / (1 + df)) + 1, in quarter units (rounded)
IdfTable == << <<4>>,
               <<6, 4>>,
               <<7, 5, 4>>,
               <<8, 6, 5, 4>>,
               <<8, 7, 6, 5, 4>>,
               <<9, 7, 6, 5, 5, 4>> >>

Idf(n, df) == IdfTable[n][df]

\* TfidfVectorizer.fit(texts): the fitted vocabulary and idf weights, or
\* fitted = FALSE when fit raises ValueError (empty vocabulary); docs are
\* the term sets of the texts, vocab the sorted terms
TfidfFit(texts) ==
  The({The({IF vocab = <<>>
            THEN [fitted |-> FALSE, vocabulary |-> <<>>, idf |-> <<>>]
            ELSE [fitted |-> TRUE,
                  vocabulary |-> vocab,
                  idf |-> [k \in DOMAIN vocab |->
                             Idf(Len(docs),
                                 Cardinality({i \in DOMAIN docs : vocab[k] \in docs[i]}))]] :
              vocab \in {SortTerms(UNION {docs[i] : i \in DOMAIN docs})}}) :
         docs \in {[i \in DOMAIN texts |-> Range(Analyze(texts[i]))]}})

\* TfidfVectorizer.transform([text]).toarray()[0] under a fitted vectorizer.
\* Rows are kept before the final L2 normalisation: cosine similarity does
\* not change under the scaling of a row.
TfidfTransform(tfidf, text) ==
  The({[k \in DOMAIN tfidf.vocabulary |-> CountOf(tfidf.vocabulary[k], terms) * tfidf.idf[k]] :
         terms \in {Analyze(text)}})

(***************************************************************************)
(* SentenceTransformer.encode: the library model is a fixed function from  *)
(* a text to a dense vector of fixed length; this stand-in keeps that      *)
(* (deterministic, fixed length, never the zero vector, signed entries).   *)
(***************************************************************************)
RECURSIVE SumLen(_)
SumLen(toks) == IF toks = <<>> THEN 0 ELSE Len(Head(toks)) + SumLen(Tail(toks))

STEncode(text) ==
  The({<<Len(toks) + 1, (SumLen(toks) % 3) - 1>> : toks \in {Tokenize(text)}})

(***************************************************************************)
(* Vectors, cosine similarity and numpy's argsort.                         *)
(***************************************************************************)
RECURSIVE SumSeq(_)
SumSeq(s) == IF s = <<>> THEN 0 ELSE Head(s) + SumSeq(Tail(s))

\* np.dot of two vectors of the same length
Dot(u, v) == SumSeq([k \in DOMAIN u |-> u[k] * v[k]])

\* np.dot(row, q) / (norm(row) * norm(q)), kept exactly as its three integer
\* parts: the value is dot / (sqrt(rn) * sqrt(qn)); with rn * qn = 0 the
\* float division 0.0 / 0.0 gives nan (numpy warns, it does not raise)
Cosine(row, q) == [dot |-> Dot(row, q), rn |-> Dot(row, row), qn |-> Dot(q, q)]

IsNan(s) == s.rn * s.qn = 0

Sgn(n) == IF n > 0 THEN 1 ELSE IF n < 0 THEN -1 ELSE 0

\* a < b as floats, for two scores against the same query (false when
\* either is nan)
SimLess(a, b) ==
  /\ ~IsNan(a)
  /\ ~IsNan(b)
  /\ Sgn(a.dot) * a.dot * a.dot * b.rn < Sgn(b.dot) * b.dot * b.dot * a.rn

\* the order numpy sorts by: nan after every number
SortsBefore(a, b) == (~IsNan(a) /\ IsNan(b)) \/ SimLess(a, b)

Perms(m) == {p \in [1..m -> 1..m] : \A i, j \in 1..m : p[i] = p[j] => i = j}

\* np.argsort(sims): every ascending order of the positions; the default
\* sort kind is not stable, so the order of equal scores is any
Argsort(sims) ==
  {p \in Perms(Len(sims)) :
     \A i, j \in 1..Len(sims) : i < j => ~SortsBefore(sims[p[j]], sims[p[i]])}

Reverse(s) == [i \in DOMAIN s |-> s[Len(s) + 1 - i]]

Min(a, b) == IF a < b THEN a ELSE b

\* a slice that keeps one entry too many
PrefixOneMore(s, k) == SubSeq(s, 1, Min(k + 1, Len(s)))

\* s[:k] for k >= 0
Prefix(s, k) == SubSeq(s, 1, Min(k, Len(s)))

(***************************************************************************)
(* The ExperimentVectorSearch object: experiments, embeddings (None until  *)
(* an index is built or loaded), model (None or the sentence transformer)  *)
(* and tfidf (no attribute, an unfitted vectorizer, or a fitted one).      *)
(***************************************************************************)
NoEmbeddings == [built |-> FALSE, rows |-> <<>>]
NoTfidf == [state |-> "unset", vocabulary |-> <<>>, idf |-> <<>>]
NoCache == [exists |-> "missing", embeddings |-> <<>>, num_experiments |-> 0, method |-> ""]

\* ExperimentVectorSearch.__init__
NewVectorSearch(baseline_file, differential_file) ==
  [experiments |-> LoadExperiments(baseline_file, differential_file),
   embeddings |-> NoEmbeddings,
   model |-> "none",
   tfidf |-> NoTfidf]

\* ExperimentVectorSearch._init_model: only ImportError is caught
InitModel(self, install) ==
  IF self.model # "none" THEN [self |-> self, raised |-> FALSE]
  ELSE IF install = "ok" THEN [self |-> [self EXCEPT !.model = "st"], raised |-> FALSE]
  ELSE IF install = "no_module" THEN [self |-> self, raised |-> FALSE]
  ELSE [self |-> self, raised |-> TRUE]

\* every corpus the files of the model can load to
CorpusUniverse ==
  {LoadExperiments(b, d) : b \in BaselineFiles, d \in DifferentialFiles}

\* TfidfVectorizer(...).fit(texts) over a corpus
FitCorpus(experiments) ==
  The({[state |-> IF fit.fitted THEN "fitted" ELSE "unfitted",
        vocabulary |-> fit.vocabulary,
        idf |-> fit.idf] : fit \in {TfidfFit(Texts(experiments))}})

\* the fit of each corpus of the model, computed once
FitOf == [c \in CorpusUniverse |-> FitCorpus(c)]

\* self.tfidf = TfidfVectorizer(...); self.tfidf.fit(texts)
FitTfidf(self) ==
  IF self.experiments \in CorpusUniverse
  THEN FitOf[self.experiments]
  ELSE FitCorpus(self.experiments)

\* self.tfidf.fit_transform(texts).toarray() once the vectorizer is fitted
TfidfRows(tfidf, experiments) ==
  [i \in DOMAIN experiments |-> TfidfTransform(tfidf, Texts(experiments)[i])]

\* self.model.encode(texts, convert_to_numpy=True)
EncodeRows(experiments) ==
  [i \in DOMAIN experiments |-> STEncode(Texts(experiments)[i])]

\* both matrices of each corpus of the model, computed once
TfidfRowsOf == [c \in CorpusUniverse |-> TfidfRows(FitOf[c], c)]
EncodeRowsOf == [c \in CorpusUniverse |-> EncodeRows(c)]

\* a build that forgets to write the cache file
WriteCacheSkipped(self, method) ==
  [exists |-> "missing", embeddings |-> <<>>, num_experiments |-> 0, method |-> ""]

\* pickle.dump({...}) over the cache file
WriteCache(self, method) ==
  [exists |-> "ok",
   embeddings |-> self.embeddings.rows,
   num_experiments |-> Len(self.experiments),
   method |-> method]

Outcome(self, cache, error, loaded, encoded) ==
  [self |-> self, cache |-> cache, raised |-> error # "", error |-> error,
   loaded |-> loaded, encoded |-> encoded]

\* ExperimentVectorSearch._init_tfidf_for_queries
InitTfidfForQueries(self, cache) ==
  The({Outcome([self EXCEPT !.tfidf = tfidf], cache,
               IF tfidf.state = "fitted" THEN "" ELSE "ValueError", TRUE, FALSE) :
         tfidf \in {FitTfidf(self)}})

\* the matrix _build_tfidf_index computes with the fitted vectorizer
FitTransform(self, tfidf) ==
  IF self.experiments \in CorpusUniverse
  THEN TfidfRowsOf[self.experiments]
  ELSE TfidfRows(tfidf, self.experiments)

\* ExperimentVectorSearch._build_tfidf_index
BuildTfidfIndex(self, cache) ==
  The({IF tfidf.state # "fitted"
       THEN Outcome([self EXCEPT !.tfidf = tfidf], cache, "ValueError", FALSE, FALSE)
       ELSE The({Outcome(done, WriteCache(done, "tfidf"), "", FALSE, TRUE) :
                   done \in {[self EXCEPT !.tfidf = tfidf,
                                          !.embeddings = [built |-> TRUE,
                                                          rows |-> FitTransform(self, tfidf)]]}}) :
         tfidf \in {FitTfidf(self)}})

\* the cache branch of build_index; loaded is the object after
\* self.embeddings = cache_data['embeddings']
LoadCache(self, cache, install) ==
  IF cache.exists = "corrupt"
  THEN Outcome(self, cache, "UnpicklingError", FALSE, FALSE)
  ELSE The({IF cache.method = "tfidf"
            THEN InitTfidfForQueries(loaded, cache)
            ELSE The({Outcome(init.self, cache, IF init.raised THEN "OSError" ELSE "",
                              TRUE, FALSE) :
                        init \in {InitModel(loaded, install)}}) :
              loaded \in {[self EXCEPT !.embeddings = [built |-> TRUE,
                                                       rows |-> cache.embeddings]]}})

\* the matrix build_index computes with the sentence transformer
Encode(self) ==
  IF self.experiments \in CorpusUniverse
  THEN EncodeRowsOf[self.experiments]
  ELSE EncodeRows(self.experiments)

\* ExperimentVectorSearch.build_index
BuildIndex(self, cache, install, force_rebuild) ==
  IF ~force_rebuild /\ cache.exists # "missing"
  THEN LoadCache(self, cache, install)
  ELSE The({IF init.raised
            THEN Outcome(self, cache, "OSError", FALSE, FALSE)
            ELSE IF init.self.model = "none"
            THEN BuildTfidfIndex(init.self, cache)
            ELSE The({Outcome(done, WriteCache(done, "sentence-transformers"), "", FALSE, TRUE) :
                        done \in {[init.self EXCEPT !.embeddings =
                                     [built |-> TRUE, rows |-> Encode(init.self)]]}}) :
              init \in {InitModel(self, install)}})

\* a filter test that leaves the experiment type out
PassesFiltersAnyType(self, i, species_filter, experiment_type) ==
  ~(/\ Truthy(species_filter)
    /\ ~Contains(Lower(Str(self.experiments[i].species)), Lower(species_filter)))

\* the filter test of search, for the record at corpus position i
PassesFilters(self, i, species_filter, experiment_type) ==
  /\ ~(/\ Truthy(species_filter)
       /\ ~Contains(Lower(Str(self.experiments[i].species)), Lower(species_filter)))
  /\ ~(Truthy(experiment_type) /\ self.experiments[i].type # experiment_type)

FilteredIndices(self, species_filter, experiment_type) ==
  SelectSeq([i \in DOMAIN self.experiments |-> i],
            LAMBDA i : PassesFilters(self, i, species_filter, experiment_type))

\* What a call of search did. A returned list is kept as the corpus
\* position and the score of each entry; Results gives the dicts.
SearchReturn(indices, scores) ==
  [raised |-> FALSE, error |-> "", indices |-> indices, scores |-> scores]

SearchRaise(error) ==
  [raised |-> TRUE, error |-> error, indices |-> <<>>, scores |-> <<>>]

\* the entries appended for top_indices (positions in the filtered lists)
BuildResults(filtered_indices, similarities, top_indices) ==
  SearchReturn([r \in DOMAIN top_indices |-> filtered_indices[top_indices[r]]],
               [r \in DOMAIN top_indices |-> similarities[top_indices[r]]])

\* the list of dicts a returned call handed back:
\* {**exp, 'similarity_score': ..., 'rank': len(results) + 1}
Results(experiments, call) ==
  [r \in DOMAIN call.indices |->
     [accession |-> experiments[call.indices[r]].accession,
      type |-> experiments[call.indices[r]].type,
      species |-> experiments[call.indices[r]].species,
      description |-> experiments[call.indices[r]].description,
      factors |-> experiments[call.indices[r]].factors,
      similarity_score |-> call.scores[r],
      rank |-> r]]

\* a ranking that forgets the [::-1]
TopIndicesAscending(similarities, top_k) ==
  {Prefix(p, top_k) : p \in Argsort(similarities)}

\* np.argsort(similarities)[::-1][:top_k]
TopIndices(similarities, top_k) ==
  {Prefix(Reverse(p), top_k) : p \in Argsort(similarities)}

\* the query vector of search
EncodeQuery(self, query) ==
  IF self.model # "none" THEN STEncode(query) ELSE TfidfTransform(self.tfidf, query)

\* search from the cosine similarities on
Rank(filtered_indices, filtered_embeddings, query_embedding, top_k) ==
  IF \E k \in DOMAIN filtered_embeddings : Len(filtered_embeddings[k]) # Len(query_embedding)
  THEN {SearchRaise("ValueError")}
  ELSE UNION {{BuildResults(filtered_indices, similarities, top) :
                 top \in TopIndices(similarities, top_k)} :
                similarities \in {[k \in DOMAIN filtered_embeddings |->
                                     Cosine(filtered_embeddings[k], query_embedding)]}}

\* search once the records are filtered
SearchFiltered(self, query, top_k, filtered_indices) ==
  IF \E k \in DOMAIN filtered_indices : filtered_indices[k] > Len(self.embeddings.rows)
  THEN {SearchRaise("IndexError")}
  ELSE IF filtered_indices = <<>>
  THEN {SearchReturn(<<>>, <<>>)}
  ELSE IF self.model = "none" /\ self.tfidf.state = "unset"
  THEN {SearchRaise("AttributeError")}
  ELSE IF self.model = "none" /\ self.tfidf.state = "unfitted"
  THEN {SearchRaise("NotFittedError")}
  ELSE Rank(filtered_indices,
            [k \in DOMAIN filtered_indices |-> self.embeddings.rows[filtered_indices[k]]],
            EncodeQuery(self, query), top_k)

\* ExperimentVectorSearch.search once self.embeddings is not None: the set
\* of outcomes the call can have (several when equal scores can be ordered
\* either way)
SearchIndexed(self, query, top_k, species_filter, experiment_type) ==
  SearchFiltered(self, query, top_k, FilteredIndices(self, species_filter, experiment_type))

(***************************************************************************)
(* SmartChatParser and SmartChat: the conversation.  A turn is computed    *)
(* by operators over the session record, the ranker object and what the    *)
(* file listing and the download return in that turn.                      *)
(***************************************************************************)
E_MTAB_513 == <<"E","-","M","T","A","B","-","5","1","3">>
E_MTAB_5214 == <<"E","-","M","T","A","B","-","5","2","1","4">>
E_MTAB_3358 == <<"E","-","M","T","A","B","-","3","3","5","8">>
E_GEOD_21860 == <<"E","-","G","E","O","D","-","2","1","8","6","0">>
E_MTAB_1733 == <<"E","-","M","T","A","B","-","1","7","3","3">>

\* KNOWN_EXPERIMENTS[species][exp_type], or None when a key is missing
KNOWN_EXPERIMENTS(species, exp_type) ==
  IF species = HOMO_SAPIENS /\ exp_type = BASELINE THEN E_MTAB_513
  ELSE IF species = MUS_MUSCULUS /\ exp_type = BASELINE THEN E_MTAB_5214
  ELSE None

\* a lookup that never finds a popular experiment
GetPopularExperimentsNone(experiment_type) == <<>>

\* ExpressionAtlasAPI.get_popular_experiments
GetPopularExperiments(experiment_type) ==
  IF experiment_type = BASELINE THEN <<E_MTAB_513, E_MTAB_5214, E_MTAB_3358>>
  ELSE IF experiment_type = DIFFERENTIAL THEN <<E_GEOD_21860, E_MTAB_1733>>
  ELSE <<>>

\* ExperimentVectorSearch.search_by_keywords on the object of the chat, which
\* holds an index from _init_vector_search on, so that search builds nothing
SearchByKeywords(self, species, keywords, experiment_type, top_k) ==
  SearchIndexed(self, KeywordQuery(species, keywords), top_k, species, experiment_type)

\* a get_top_experiments that asks the ranker for one experiment only
GetTopExperimentsSingle(vector_search, self, parsed, top_k) ==
  IF vector_search
  THEN {IF o.raised THEN <<>> ELSE Results(self.experiments, o) :
          o \in SearchByKeywords(self, parsed.species, parsed.keywords,
                                 parsed.experiment_type, 1)}
  ELSE {<<>>}

\* SmartChatParser.get_top_experiments: the lists it can return
GetTopExperiments(vector_search, self, parsed, top_k) ==
  IF vector_search
  THEN {IF o.raised THEN <<>> ELSE Results(self.experiments, o) :
          o \in SearchByKeywords(self, parsed.species, parsed.keywords,
                                 parsed.experiment_type, top_k)}
  ELSE {<<>>}

\* a fallback that asks the popular experiments before the known ones
FallbackExperimentPopularFirst(species, exp_type, popular) ==
  IF popular # <<>> THEN popular[1]
  ELSE IF Truthy(species) THEN KNOWN_EXPERIMENTS(species, exp_type)
  ELSE None

\* the id recommend_experiment falls back on when the search gives nothing:
\* KNOWN_EXPERIMENTS first, then the first popular experiment
FallbackExperiment(species, exp_type, popular) ==
  IF Truthy(species) /\ KNOWN_EXPERIMENTS(species, exp_type) # None
  THEN KNOWN_EXPERIMENTS(species, exp_type)
  ELSE IF popular # <<>> THEN popular[1]
  ELSE None

\* SmartChatParser.recommend_experiment: the ids it can return
RecommendExperiment(vector_search, self, parsed) ==
  IF vector_search
  THEN {IF ~o.raised /\ o.indices # <<>>
        THEN self.experiments[o.indices[1]].accession
        ELSE FallbackExperiment(parsed.species, parsed.experiment_type,
                                GetPopularExperiments(parsed.experiment_type)) :
          o \in SearchByKeywords(self, parsed.species, parsed.keywords,
                                 parsed.experiment_type, 1)}
  ELSE {FallbackExperiment(parsed.species, parsed.experiment_type,
                           GetPopularExperiments(parsed.experiment_type))}

\* a file of a listing: a link text (str) or a dict with a name
FileItem(kind, name) == [kind |-> kind, name |-> name]
NoFile == FileItem("none", <<>>)

\* SmartChat.ftp_result = None
NoFtp == [set |-> FALSE, success |-> FALSE, files |-> <<>>, method |-> ""]

\* str.endswith
EndsWith(s, suffix) ==
  Len(s) >= Len(suffix) /\ SubSeq(s, Len(s) - Len(suffix) + 1, Len(s)) = suffix

TSV == <<".","t","s","v">>

\* the category identify_expression_files files a lowercased name under
CategoryOfLowered(filename_lower) ==
  IF Contains(filename_lower, <<"t","p","m">>) /\ EndsWith(filename_lower, TSV) THEN "tpms"
  ELSE IF Contains(filename_lower, <<"f","p","k","m">>) /\ EndsWith(filename_lower, TSV) THEN "fpkms"
  ELSE IF Contains(filename_lower, <<"c","o","u","n","t">>) /\ EndsWith(filename_lower, TSV) THEN "counts"
  ELSE IF Contains(filename_lower, <<"s","d","r","f">>) THEN "metadata"
  ELSE "other"

FileCategory(filename) == CategoryOfLowered(Lower(filename))

\* SmartChat.identified_files = None
NoIdentified ==
  [set |-> FALSE,
   categorized |-> [tpms |-> <<>>, fpkms |-> <<>>, counts |-> <<>>,
                    metadata |-> <<>>, other |-> <<>>],
   recommended |-> NoFile, recommended_type |-> "none"]

\* the files of a listing filed under a category, in listing order
Categorized(files_list, category) ==
  SelectSeq(files_list, LAMBDA f : FileCategory(f.name) = category)

\* the first of the categories tpms, fpkms, counts that holds a file
RecommendedType(expression_files) ==
  IF expression_files.tpms # <<>> THEN "tpms"
  ELSE IF expression_files.fpkms # <<>> THEN "fpkms"
  ELSE IF expression_files.counts # <<>> THEN "counts"
  ELSE "none"

\* SmartChat.identify_expression_files
IdentifyExpressionFiles(files_list) ==
  The({[set |-> TRUE,
        categorized |-> expression_files,
        recommended |-> IF RecommendedType(expression_files) = "none" THEN NoFile
                        ELSE expression_files[RecommendedType(expression_files)][1],
        recommended_type |-> RecommendedType(expression_files)] :
         expression_files \in {[tpms |-> Categorized(files_list, "tpms"),
                                fpkms |-> Categorized(files_list, "fpkms"),
                                counts |-> Categorized(files_list, "counts"),
                                metadata |-> Categorized(files_list, "metadata"),
                                other |-> Categorized(files_list, "other")]}})

\* what browse_ftp_directory can return for an experiment
Listings ==
  {[set |-> TRUE, success |-> FALSE, files |-> <<>>, method |-> ""],
   [set |-> TRUE, success |-> TRUE, method |-> "https_ftp_browse",
    files |-> <<FileItem("str", <<"x","-","T","P","M","s",".","t","s","v">>),
                FileItem("str", <<"x",".","s","d","r","f",".","t","x","t">>)>>],
   [set |-> TRUE, success |-> TRUE, method |-> "https_ftp_browse",
    files |-> <<FileItem("str", <<"r","e","a","d","m","e",".","t","x","t">>)>>],
   [set |-> TRUE, success |-> TRUE, method |-> "pattern_matching",
    files |-> <<FileItem("dict", <<"x","-","r","a","w","-","c","o","u","n","t","s",".","t","s","v">>)>>]}

\* what download_experiment_data can do: return a non-empty mapping, return
\* an empty one, or raise (output_path.mkdir is outside its try blocks)
Downloads == {"files", "nothing", "raises"}

\* the listings and downloads a turn can meet: process_query reaches
\* browse_ftp_directory only outside CONFIRMING and download_experiment_data
\* only in it
ListingsFor(c) == IF c.state = "CONFIRMING" THEN {NoFtp} ELSE Listings
DownloadsFor(c) == IF c.state = "CONFIRMING" THEN Downloads ELSE {"nothing"}

\* the session of a SmartChat; vector_search tells whether
\* parser.vector_search is an object (TRUE) or None
NewSmartChat(vector_search) ==
  [vector_search |-> vector_search,
   state |-> "INITIAL",
   current_query |-> NoQuery,
   current_recommendations |-> <<>>,
   selected_experiment |-> None,
   ftp_result |-> NoFtp,
   identified_files |-> NoIdentified]

\* a _reset_state that keeps the last query
ResetStateKeepsQuery(c) ==
  [c EXCEPT !.state = "INITIAL",
            !.current_recommendations = <<>>,
            !.selected_experiment = None,
            !.ftp_result = NoFtp,
            !.identified_files = NoIdentified]

\* a _reset_state that keeps the candidates
ResetStateKeepsCandidates(c) ==
  [c EXCEPT !.state = "INITIAL",
            !.current_query = NoQuery,
            !.selected_experiment = None,
            !.ftp_result = NoFtp,
            !.identified_files = NoIdentified]

\* SmartChat._reset_state
ResetState(c) ==
  [c EXCEPT !.state = "INITIAL",
            !.current_query = NoQuery,
            !.current_recommendations = <<>>,
            !.selected_experiment = None,
            !.ftp_result = NoFtp,
            !.identified_files = NoIdentified]

\* what a turn did besides changing the session
Effects ==
  [tag |-> "", rankings |-> 0, found |-> 0 - 1, recommended |-> None,
   listing |-> NoFtp, downloads |-> 0, download_id |-> None, raised |-> FALSE]

TurnOutcome(c, effects) == [chat |-> c, effects |-> effects]

\* details that ask for the confirmation after every listing that succeeded
ShowListingAlwaysConfirms(browsed, listing, identified, shown) ==
  IF listing.success
  THEN TurnOutcome([browsed EXCEPT !.identified_files = identified,
                                   !.state = "CONFIRMING"],
                   [shown EXCEPT !.tag = "confirm_prompt"])
  ELSE TurnOutcome(ResetState(browsed), [shown EXCEPT !.tag = "manual_guide"])

\* _show_experiment_details once the listing is there and identified
ShowListing(browsed, listing, identified, shown) ==
  IF listing.success
  THEN IF identified.recommended # NoFile
       THEN TurnOutcome([browsed EXCEPT !.identified_files = identified,
                                        !.state = "CONFIRMING"],
                        [shown EXCEPT !.tag = "confirm_prompt"])
       ELSE IF \E category \in {"tpms", "fpkms", "counts"} :
                  identified.categorized[category] # <<>>
       THEN TurnOutcome(ResetState(browsed), [shown EXCEPT !.tag = "manual_guide"])
       ELSE TurnOutcome(ResetState(browsed), [shown EXCEPT !.tag = "manual_guide"])
  ELSE TurnOutcome(ResetState(browsed), [shown EXCEPT !.tag = "manual_guide"])

\* SmartChat._show_experiment_details, with the listing browse_ftp_directory
\* returns if it is called
ShowExperimentDetails(c, listing, effects) ==
  IF ~Truthy(c.selected_experiment)
  THEN TurnOutcome(ResetState(c), [effects EXCEPT !.tag = "no_experiment"])
  ELSE ShowListing([c EXCEPT !.ftp_result = listing], listing,
                   IdentifyExpressionFiles(listing.files),
                   [effects EXCEPT !.listing = listing])

\* an entry picked regardless of the number typed
PickFirstCandidate(recommendations, choice) == recommendations[1].accession

\* a selection that takes the species of the candidate for its accession
PickCandidateSpecies(recommendations, choice) == recommendations[choice].species

\* selected = self.current_recommendations[choice - 1]; selected['accession']
PickCandidate(recommendations, choice) == recommendations[choice].accession

\* a _handle_selection that starts over on every input that is not the
\* number of a candidate
SelectLoweredStartsOver(c, text, listing) ==
  IF IsIntLiteral(text) /\ 1 <= IntValue(text)
       /\ IntValue(text) <= Len(c.current_recommendations)
  THEN ShowExperimentDetails(
         [c EXCEPT !.selected_experiment =
                     PickCandidate(c.current_recommendations, IntValue(text))],
         listing, Effects)
  ELSE TurnOutcome(ResetState(c), [Effects EXCEPT !.tag = "reset"])

\* _handle_selection on the stripped, lowercased input
SelectLowered(c, text, listing) ==
  IF text \in {<<"b","a","c","k">>, <<"n","e","w">>, <<"c","a","n","c","e","l">>}
  THEN TurnOutcome(ResetState(c), [Effects EXCEPT !.tag = "reset"])
  ELSE IF IsIntLiteral(text)
  THEN \* choice = int(user_input)
       The({IF 1 <= choice /\ choice <= Len(c.current_recommendations)
            THEN ShowExperimentDetails(
                   [c EXCEPT !.selected_experiment =
                               PickCandidate(c.current_recommendations, choice)],
                   listing, Effects)
            ELSE TurnOutcome(c, [Effects EXCEPT !.tag = "invalid_choice"]) :
              choice \in {IntValue(text)}})
  ELSE TurnOutcome(c, [Effects EXCEPT !.tag = "invalid_choice"])

\* a selection step that drops the first candidate and asks again
HandleSelectionDropsCandidate(c, user_input, listing) ==
  TurnOutcome([c EXCEPT !.current_recommendations = Tail(c.current_recommendations)],
              [Effects EXCEPT !.tag = "invalid_choice"])

\* SmartChat._handle_selection
HandleSelection(c, user_input, listing) ==
  SelectLowered(c, Lower(Strip(user_input)), listing)

\* a confirmation that resets the session only after a download with files
HandleDownloadConfirmationKeepOnFailure(c, user_input, download) ==
  IF download = "files"
  THEN TurnOutcome(ResetState(c), [Effects EXCEPT !.tag = "downloaded", !.downloads = 1,
                                                  !.download_id = c.selected_experiment])
  ELSE TurnOutcome(c, [Effects EXCEPT !.tag = "download_failed", !.downloads = 1,
                                      !.download_id = c.selected_experiment])

\* a _handle_download_confirmation that starts over on back and cancel
ConfirmLoweredBackStartsOver(c, text, download, called) ==
  IF text \in {<<"b","a","c","k">>, <<"c","a","n","c","e","l">>}
  THEN TurnOutcome(ResetState(c), [Effects EXCEPT !.tag = "reset"])
  ELSE IF text \in {<<"y","e","s">>, <<"y">>, <<"d","o","w","n","l","o","a","d">>}
  THEN IF download = "raises"
       THEN TurnOutcome(c, [called EXCEPT !.tag = "error", !.raised = TRUE])
       ELSE IF download = "files"
       THEN TurnOutcome(ResetState(c), [called EXCEPT !.tag = "downloaded"])
       ELSE TurnOutcome(ResetState(c), [called EXCEPT !.tag = "download_failed"])
  ELSE IF text \in {<<"n","o">>, <<"n">>, <<"s","k","i","p">>}
  THEN TurnOutcome(ResetState(c), [Effects EXCEPT !.tag = "skipped"])
  ELSE TurnOutcome(c, [Effects EXCEPT !.tag = "reprompt"])

\* a _handle_download_confirmation that takes every unknown reply for a no
ConfirmLoweredUnknownSkips(c, text, download, called) ==
  IF text \in {<<"b","a","c","k">>, <<"c","a","n","c","e","l">>}
  THEN IF c.current_recommendations # <<>>
       THEN TurnOutcome([c EXCEPT !.state = "SELECTING"], [Effects EXCEPT !.tag = "recommendations"])
       ELSE TurnOutcome(ResetState(c), [Effects EXCEPT !.tag = "reset"])
  ELSE IF text \in {<<"y","e","s">>, <<"y">>, <<"d","o","w","n","l","o","a","d">>}
  THEN IF download = "raises"
       THEN TurnOutcome(c, [called EXCEPT !.tag = "error", !.raised = TRUE])
       ELSE IF download = "files"
       THEN TurnOutcome(ResetState(c), [called EXCEPT !.tag = "downloaded"])
       ELSE TurnOutcome(ResetState(c), [called EXCEPT !.tag = "download_failed"])
  ELSE TurnOutcome(ResetState(c), [Effects EXCEPT !.tag = "skipped"])

\* _handle_download_confirmation on the stripped, lowercased input; called is
\* what the turn has done once download_experiment_data is called
ConfirmLowered(c, text, download, called) ==
  IF text \in {<<"b","a","c","k">>, <<"c","a","n","c","e","l">>}
  THEN IF c.current_recommendations # <<>>
       THEN TurnOutcome([c EXCEPT !.state = "SELECTING"], [Effects EXCEPT !.tag = "recommendations"])
       ELSE TurnOutcome(ResetState(c), [Effects EXCEPT !.tag = "reset"])
  ELSE IF text \in {<<"y","e","s">>, <<"y">>, <<"d","o","w","n","l","o","a","d">>}
  THEN IF download = "raises"
       THEN TurnOutcome(c, [called EXCEPT !.tag = "error", !.raised = TRUE])
       ELSE IF download = "files"
       THEN TurnOutcome(ResetState(c), [called EXCEPT !.tag = "downloaded"])
       ELSE TurnOutcome(ResetState(c), [called EXCEPT !.tag = "download_failed"])
  ELSE IF text \in {<<"n","o">>, <<"n">>, <<"s","k","i","p">>}
  THEN TurnOutcome(ResetState(c), [Effects EXCEPT !.tag = "skipped"])
  ELSE TurnOutcome(c, [Effects EXCEPT !.tag = "reprompt"])

\* a confirmation step that only asks again
HandleDownloadConfirmationStuck(c, user_input, download) ==
  TurnOutcome(c, [Effects EXCEPT !.tag = "reprompt"])

\* SmartChat._handle_download_confirmation, with what download_experiment_data
\* does if it is called
HandleDownloadConfirmation(c, user_input, download) ==
  ConfirmLowered(c, Lower(Strip(user_input)), download,
                 [Effects EXCEPT !.downloads = 1, !.download_id = c.selected_experiment])

\* the INITIAL branch of process_query when get_top_experiments gave nothing:
\* the fallback on recommend_experiment
ProcessFallback(queried, experiment_id, listing, searched) ==
  IF Truthy(experiment_id)
  THEN ShowExperimentDetails([queried EXCEPT !.selected_experiment = experiment_id],
                             listing, [searched EXCEPT !.recommended = experiment_id])
  ELSE TurnOutcome(queried, [searched EXCEPT !.tag = "no_match"])

\* the INITIAL branch of process_query from self.current_query = parsed on
ProcessParsed(queried, self, parsed, listing) ==
  IF Truthy(parsed.experiment_id)
  THEN {ShowExperimentDetails([queried EXCEPT !.selected_experiment = parsed.experiment_id],
                              listing, Effects)}
  ELSE UNION {
    IF top_experiments = <<>>
    THEN {ProcessFallback(queried, experiment_id, listing,
                          [Effects EXCEPT !.found = 0,
                                          !.rankings = IF queried.vector_search THEN 2 ELSE 0]) :
            experiment_id \in RecommendExperiment(queried.vector_search, self, parsed)}
    ELSE {TurnOutcome([queried EXCEPT !.current_recommendations = top_experiments,
                                      !.state = "SELECTING"],
                      [Effects EXCEPT !.tag = "recommendations",
                                      !.found = Len(top_experiments),
                                      !.rankings = 1])} :
      top_experiments \in GetTopExperiments(queried.vector_search, self, parsed, 3)}

\* the INITIAL branch of SmartChat.process_query for one parse of the input
ProcessNewQuery(c, self, parsed, listing) ==
  ProcessParsed([c EXCEPT !.current_query = parsed], self, parsed, listing)

\* process_query without the dispatch on the state: every input is a new query
ProcessQueryOutcomesNoDispatch(c, self, user_input, listing, download) ==
  UNION {ProcessNewQuery(c, self, parsed, listing) : parsed \in ParseOf[user_input]}

\* SmartChat.process_query: the outcomes of a turn
ProcessQueryOutcomes(c, self, user_input, listing, download) ==
  IF c.state = "SELECTING"
  THEN {HandleSelection(c, user_input, listing)}
  ELSE IF c.state = "CONFIRMING"
  THEN {HandleDownloadConfirmation(c, user_input, download)}
  ELSE UNION {ProcessNewQuery(c, self, parsed, listing) :
                parsed \in IF user_input \in UserInputs THEN ParseOf[user_input]
                           ELSE ParseUserInput(user_input)}

(***************************************************************************)
(* The stateless tools: ExpressionAtlasAPI.download_experiment_data        *)
(* (expression_atlas.py) and identify_expression_files of the MCP server   *)
(* (mcp_server.py).  A server is what the output directory, the web        *)
(* endpoint and the HTTPS mirror answer: "200", another status ("404") or  *)
(* an exception of the request or of the write of the file ("raises").     *)
(***************************************************************************)
\* three of the six entries of file_patterns, in their order: two that have
\* a web resource and one that has none
FILE_PATTERNS == <<"tpms", "counts", "design">>

\* the keys of resource_map among them
RESOURCE_MAP == {"tpms", "counts"}

ExperimentTypes == <<"RnaSeqBaseline", "RnaSeqDifferential", "ProteomicsBaseline">>

Responses == {"200", "404", "raises"}

\* what the web endpoint answers for the three experiment types
WebAnswers ==
  {<<"200", "200", "200">>, <<"404", "200", "404">>, <<"raises", "404", "200">>,
   <<"404", "404", "404">>, <<"raises", "raises", "raises">>, <<"404", "raises", "404">>}

Servers ==
  [mkdir : {"ok", "raises"},
   web : [RESOURCE_MAP -> WebAnswers],
   mirror : [Range(FILE_PATTERNS) -> Responses]]

\* the file_types argument: absent, empty, or a list of names
FileTypeRequests ==
  {None, <<>>, <<"counts">>, <<"design", "tpms">>, <<"analytics">>,
   <<"analytics", "counts">>}

Request(file_type, endpoint, exp_type) ==
  [file_type |-> file_type, endpoint |-> endpoint, exp_type |-> exp_type]

\* the loop of _try_web_download from experiment type k on
RECURSIVE TryWebTypes(_, _, _)
TryWebTypes(answers, file_type, k) ==
  IF k > Len(ExperimentTypes)
  THEN [success |-> FALSE, requests |-> <<>>]
  ELSE IF answers[k] = "200"
  THEN [success |-> TRUE,
        requests |-> <<Request(file_type, "web", ExperimentTypes[k])>>]
  ELSE The({[success |-> rest.success,
             requests |-> <<Request(file_type, "web", ExperimentTypes[k])>> \o rest.requests] :
              rest \in {TryWebTypes(answers, file_type, k + 1)}})

TryWebDownload(server, file_type) ==
  IF file_type \notin RESOURCE_MAP
  THEN [success |-> FALSE, requests |-> <<>>]
  ELSE TryWebTypes(server.web[file_type], file_type, 1)

\* the request to the HTTPS mirror
TryMirror(server, file_type) ==
  [success |-> server.mirror[file_type] = "200",
   requests |-> <<Request(file_type, "mirror", "")>>]

\* a body of the loop that asks the mirror before the web endpoint
DownloadFileTypeMirrorFirst(server, file_type) ==
  The({IF mirror.success THEN mirror
       ELSE [success |-> web.success, requests |-> mirror.requests \o web.requests] :
         web \in {TryWebDownload(server, file_type)},
         mirror \in {TryMirror(server, file_type)}})

\* one pass of the loop over file_patterns
DownloadFileType(server, file_type) ==
  The({IF web.success THEN web
       ELSE [success |-> mirror.success, requests |-> web.requests \o mirror.requests] :
         web \in {TryWebDownload(server, file_type)},
         mirror \in {TryMirror(server, file_type)}})

RECURSIVE DownloadFiles(_, _)
DownloadFiles(server, patterns) ==
  IF patterns = <<>>
  THEN [downloaded_files |-> <<>>, requests |-> <<>>]
  ELSE The({[downloaded_files |-> (IF one.success THEN <<Head(patterns)>> ELSE <<>>)
                                    \o rest.downloaded_files,
             requests |-> one.requests \o rest.requests] :
              one \in {DownloadFileType(server, Head(patterns))},
              rest \in {DownloadFiles(server, Tail(patterns))}})

\* file_patterns after the filter on file_types
FilterPatterns(file_types) ==
  IF Truthy(file_types)
  THEN SelectSeq(FILE_PATTERNS, LAMBDA k : k \in Range(file_types))
  ELSE FILE_PATTERNS

NoTool ==
  [op |-> "none", file_types |-> None, server |-> None, raised |-> FALSE,
   downloaded_files |-> <<>>, requests |-> <<>>,
   files_list |-> <<>>, identified |-> None]

\* download_experiment_data(experiment_id, output_dir, file_types); the
\* mkdir of its first lines is outside every try
DownloadExperimentData(server, file_types) ==
  IF server.mkdir = "raises"
  THEN [NoTool EXCEPT !.op = "download_experiment_data", !.file_types = file_types,
                      !.server = server, !.raised = TRUE]
  ELSE The({[NoTool EXCEPT !.op = "download_experiment_data", !.file_types = file_types,
                           !.server = server,
                           !.downloaded_files = done.downloaded_files,
                           !.requests = done.requests] :
              done \in {DownloadFiles(server, FilterPatterns(file_types))}})

\* identify_expression_files of mcp_server.py: the if/elif chain on the
\* lowered name
McpCategoryOfLowered(filename_lower) ==
  IF Contains(filename_lower, <<"t","p","m">>) /\ EndsWith(filename_lower, TSV) THEN "tpms"
  ELSE IF Contains(filename_lower, <<"f","p","k","m">>) /\ EndsWith(filename_lower, TSV) THEN "fpkms"
  ELSE IF Contains(filename_lower, <<"c","o","u","n","t">>) /\ EndsWith(filename_lower, TSV) THEN "counts"
  ELSE IF Contains(filename_lower, <<"a","n","a","l","y","t","i","c","s">>) THEN "analytics"
  ELSE IF \/ Contains(filename_lower, <<"s","d","r","f">>)
          \/ Contains(filename_lower, <<"m","e","t","a","d","a","t","a">>) THEN "metadata"
  ELSE "other"

\* the name looked at: file_item.get('name', '') of a dict, str(file_item) else
McpFilename(file_item) ==
  IF file_item.kind = "dict_without_name" THEN <<>> ELSE file_item.name

McpCategorized(files_list, category) ==
  SelectSeq(files_list, LAMBDA f : McpCategoryOfLowered(Lower(McpFilename(f))) = category)

\* a recommendation that ranks raw counts before FPKMs
McpRecommendedTypeCountsFirst(expression_files) ==
  IF expression_files.tpms # <<>> THEN "tpms"
  ELSE IF expression_files.counts # <<>> THEN "counts"
  ELSE IF expression_files.fpkms # <<>> THEN "fpkms"
  ELSE IF expression_files.analytics # <<>> THEN "analytics"
  ELSE "none"

McpRecommendedType(expression_files) ==
  IF expression_files.tpms # <<>> THEN "tpms"
  ELSE IF expression_files.fpkms # <<>> THEN "fpkms"
  ELSE IF expression_files.counts # <<>> THEN "counts"
  ELSE IF expression_files.analytics # <<>> THEN "analytics"
  ELSE "none"

\* NoFile and "none" stand for the None of recommended_file and of
\* recommended_type
McpIdentifyExpressionFiles(files_list) ==
  The({The({[categorized_files |-> expression_files,
             recommended_file |-> IF recommended_type = "none" THEN NoFile
                                  ELSE expression_files[recommended_type][1],
             recommended_type |-> recommended_type,
             summary |-> [total_files |-> Len(files_list),
                          expression_files |-> Len(expression_files.tpms)
                                                + Len(expression_files.fpkms)
                                                + Len(expression_files.counts),
                          metadata_files |-> Len(expression_files.metadata)]] :
              recommended_type \in {McpRecommendedType(expression_files)}}) :
         expression_files \in {[tpms |-> McpCategorized(files_list, "tpms"),
                                fpkms |-> McpCategorized(files_list, "fpkms"),
                                counts |-> McpCategorized(files_list, "counts"),
                                analytics |-> McpCategorized(files_list, "analytics"),
                                metadata |-> McpCategorized(files_list, "metadata"),
                                other |-> McpCategorized(files_list, "other")]}})

\* the files a list can hold, and the lists of up to MaxFiles of them
MaxFiles == 3

FileItems ==
  {FileItem("str", <<"E","-","T","P","M","s",".","t","s","v">>),
   FileItem("dict", <<"e","-","t","p","m","s",".","t","s","v">>),
   FileItem("str", <<"e","-","f","p","k","m","s",".","t","s","v">>),
   FileItem("str", <<"r","a","w","-","c","o","u","n","t","s",".","t","s","v">>),
   FileItem("str", <<"t","p","m","s","-","a","n","a","l","y","t","i","c","s",".","t","x","t">>),
   FileItem("str", <<"e",".","s","d","r","f",".","t","x","t">>),
   FileItem("str", <<"t","p","m","s",".","t","s","v",".","g","z">>),
   FileItem("dict_without_name", <<>>)}

FileLists == SeqsUpTo(FileItems, MaxFiles)

(***************************************************************************)
(* State: the files of cache_dir, the installation of the                  *)
(* sentence-transformers package, and one process holding one              *)
(* ExperimentVectorSearch object, on its own ("up") or as the ranker of a  *)
(* SmartChat ("chat"); and the last call of a stateless tool.              *)
(***************************************************************************)
VARIABLES
  csvBaseline,      \* baseline_experiments.csv: [exists, rows]
  csvDifferential,  \* differential_experiments.csv: [exists, rows]
  cacheFile,        \* embeddings_cache.pkl
  stInstall,        \* "ok", "no_module" (ImportError) or "load_error"
  proc,             \* "down", "up" or "chat"
  vs,               \* the ExperimentVectorSearch object of the process
  last,             \* the last call made on vs and what it did
  chat,             \* the session of the SmartChat of the process
  turn,             \* the last turn of the chat and what it did
  tool              \* the last call of a stateless tool and what it did

diskVars == <<csvBaseline, csvDifferential, cacheFile, stInstall>>
chatVars == <<chat, turn>>
vars == <<csvBaseline, csvDifferential, cacheFile, stInstall, proc, vs, last, chat, turn, tool>>

NoObject == [experiments |-> <<>>, embeddings |-> NoEmbeddings, model |-> "none", tfidf |-> NoTfidf]

NoCall ==
  [op |-> "none", force_rebuild |-> FALSE, query |-> <<>>, top_k |-> 0,
   species_filter |-> None, experiment_type |-> None,
   raised |-> FALSE, error |-> "", indices |-> <<>>, scores |-> <<>>,
   loaded |-> FALSE, encoded |-> FALSE, before |-> NoEmbeddings, afterBuild |-> FALSE]

\* what a turn started from
Before(c) ==
  [state |-> c.state,
   current_recommendations |-> c.current_recommendations,
   selected_experiment |-> c.selected_experiment]

NoTurn == [op |-> "none", input |-> <<>>, before |-> Before(NewSmartChat(FALSE)), effects |-> Effects]

\* the last call was a build_index that returned
BuildReturned == last.op = "build_index" /\ ~last.raised

Init ==
  /\ csvBaseline \in BaselineFiles
  /\ csvDifferential \in DifferentialFiles
  /\ cacheFile = NoCache
  /\ stInstall \in Installs
  /\ proc = "down"
  /\ vs = NoObject
  /\ last = NoCall
  /\ chat = NewSmartChat(FALSE)
  /\ turn = NoTurn
  /\ tool = NoTool

\* a process starts and constructs ExperimentVectorSearch(cache_dir)
Construct ==
  /\ proc = "down"
  /\ proc' = "up"
  /\ vs' = NewVectorSearch(csvBaseline, csvDifferential)
  /\ last' = [NoCall EXCEPT !.op = "init"]
  /\ UNCHANGED <<diskVars, chatVars, tool>>

\* build_index(force_rebuild)
CallBuildIndex(force_rebuild) ==
  /\ proc = "up"
  /\ \E o \in {BuildIndex(vs, cacheFile, stInstall, force_rebuild)} :
       /\ vs' = o.self
       /\ cacheFile' = o.cache
       /\ last' = [NoCall EXCEPT !.op = "build_index",
                                 !.force_rebuild = force_rebuild,
                                 !.raised = o.raised, !.error = o.error,
                                 !.loaded = o.loaded, !.encoded = o.encoded,
                                 !.before = vs.embeddings,
                                 !.afterBuild = BuildReturned]
  /\ UNCHANGED <<csvBaseline, csvDifferential, stInstall, proc, chatVars, tool>>

\* search(query, top_k, species_filter, experiment_type); b is what the
\* build_index() of its first lines did, call what is known before ranking
CallSearch(query, top_k, species_filter, experiment_type) ==
  /\ proc = "up"
  /\ \E b \in {IF vs.embeddings.built
               THEN Outcome(vs, cacheFile, "", FALSE, FALSE)
               ELSE BuildIndex(vs, cacheFile, stInstall, FALSE)} :
       \E call \in {[NoCall EXCEPT !.op = "search", !.query = query, !.top_k = top_k,
                                   !.species_filter = species_filter,
                                   !.experiment_type = experiment_type,
                                   !.loaded = b.loaded, !.encoded = b.encoded,
                                   !.before = vs.embeddings]} :
         /\ vs' = b.self
         /\ cacheFile' = b.cache
         /\ IF b.raised
            THEN last' = [call EXCEPT !.raised = TRUE, !.error = b.error]
            ELSE \E o \in SearchIndexed(b.self, query, top_k, species_filter, experiment_type) :
                   last' = [call EXCEPT !.raised = o.raised, !.error = o.error,
                                        !.indices = o.indices, !.scores = o.scores]
  /\ UNCHANGED <<csvBaseline, csvDifferential, stInstall, proc, chatVars, tool>>

\* the process ends; nothing of the object outlives it
Exit ==
  /\ proc = "up"
  /\ proc' = "down"
  /\ vs' = NoObject
  /\ last' = NoCall
  /\ UNCHANGED <<diskVars, chatVars, tool>>

\* between two runs the metadata files are replaced
RewriteCsv ==
  /\ proc = "down"
  /\ csvBaseline' \in BaselineFiles
  /\ csvDifferential' \in DifferentialFiles
  /\ <<csvBaseline', csvDifferential'>> # <<csvBaseline, csvDifferential>>
  /\ UNCHANGED <<cacheFile, stInstall, proc, vs, last, chatVars, tool>>

\* between two runs sentence-transformers is installed, removed or loses its weights
Reinstall ==
  /\ proc = "down"
  /\ stInstall' \in Installs \ {stInstall}
  /\ UNCHANGED <<csvBaseline, csvDifferential, cacheFile, proc, vs, last, chatVars, tool>>

\* between two runs the cache file is damaged
CorruptCache ==
  /\ proc = "down"
  /\ cacheFile.exists = "ok"
  /\ cacheFile' = [NoCache EXCEPT !.exists = "corrupt"]
  /\ UNCHANGED <<csvBaseline, csvDifferential, stInstall, proc, vs, last, chatVars, tool>>

Next ==
  \/ Construct
  \/ \E force_rebuild \in BOOLEAN : CallBuildIndex(force_rebuild)
  \/ \E query \in Queries : CallSearch(query, MaxTopK, None, None)
  \/ Exit
  \/ RewriteCsv
  \/ Reinstall
  \/ CorruptCache

\* the life of the index across runs of the program
Spec == Init /\ [][Next]_vars

NextSearch ==
  \/ Construct
  \/ \E force_rebuild \in BOOLEAN : CallBuildIndex(force_rebuild)
  \/ \E query \in Queries, top_k \in 0..MaxTopK,
        species_filter \in SpeciesFilters, experiment_type \in TypeFilters :
       CallSearch(query, top_k, species_filter, experiment_type)

\* one run of the program, with every argument of search
SpecSearch == Init /\ [][NextSearch]_vars

\* a metadata file with more rows passing one filter than a turn of the chat
\* asks for (top_k = 3): each row of the model twice
LongBaselineFile ==
  [exists |-> TRUE,
   rows |-> The({<<r[1], r[2], r[2], r[1]>> :
                   r \in {r \in [1..2 -> BaselineRowSet] :
                            r[1].accession = AccA1 /\ r[2].accession = AccA2}})]

\* the metadata files the chat is run with
ChatBaselineFiles ==
  {MissingFile, LongBaselineFile}
    \cup {f \in BaselineFiles : \A row \in BaselineRowSet : row \in Range(f.rows)}

\* the long baseline file is run without a differential file
InitChat ==
  /\ csvBaseline \in ChatBaselineFiles
  /\ csvDifferential \in DifferentialFiles
  /\ csvBaseline = LongBaselineFile => csvDifferential = MissingFile
  /\ cacheFile = NoCache
  /\ stInstall \in Installs
  /\ proc = "down"
  /\ vs = NoObject
  /\ last = NoCall
  /\ chat = NewSmartChat(FALSE)
  /\ turn = NoTurn
  /\ tool = NoTool

\* a process starts and constructs SmartChat(): SmartChatParser builds the
\* ranker and drops it if anything raises (_init_vector_search)
StartChat ==
  /\ proc = "down"
  /\ proc' = "chat"
  /\ \E b \in {BuildIndex(NewVectorSearch(csvBaseline, csvDifferential),
                          cacheFile, stInstall, FALSE)} :
       /\ cacheFile' = b.cache
       /\ vs' = IF b.raised THEN NoObject ELSE b.self
       /\ chat' = NewSmartChat(~b.raised)
  /\ turn' = NoTurn
  /\ UNCHANGED <<csvBaseline, csvDifferential, stInstall, last, tool>>

\* one turn: process_query(user_input)
ProcessQuery(user_input) ==
  /\ proc = "chat"
  /\ \E listing \in ListingsFor(chat), download \in DownloadsFor(chat) :
       \E o \in ProcessQueryOutcomes(chat, vs, user_input, listing, download) :
         /\ chat' = o.chat
         /\ turn' = [op |-> "process_query", input |-> user_input,
                     before |-> Before(chat), effects |-> o.effects]
  /\ UNCHANGED <<diskVars, proc, vs, last, tool>>

\* the user leaves the chat and the process ends
Quit ==
  /\ proc = "chat"
  /\ proc' = "down"
  /\ vs' = NoObject
  /\ chat' = NewSmartChat(FALSE)
  /\ turn' = NoTurn
  /\ UNCHANGED <<diskVars, last, tool>>

NextChat ==
  \/ StartChat
  \/ \E user_input \in UserInputs : ProcessQuery(user_input)
  \/ Quit

\* sessions of the chat
SpecChat == InitChat /\ [][NextChat]_vars

\* the rows of a metadata file as pandas reads them, rows with an empty
\* accession or species cell (NaN) among them
LoaderRowSet ==
  BaselineRowSet
    \cup {[accession |-> NaN, species |-> <<"Z","e","a"," ","m","a","y","s">>,
           description |-> <<"r","o","o","t">>, factors |-> NaN],
          [accession |-> AccB3, species |-> NaN,
           description |-> NaN, factors |-> <<"s","e","x">>]}

LoaderFiles ==
  {MissingFile}
    \cup {[exists |-> TRUE, rows |-> r] : r \in SeqsUpTo(LoaderRowSet, MaxBaselineRows)}

InitLoad ==
  /\ csvBaseline \in LoaderFiles
  /\ csvDifferential \in LoaderFiles
  /\ cacheFile = NoCache
  /\ stInstall = "ok"
  /\ proc = "down"
  /\ vs = NoObject
  /\ last = NoCall
  /\ chat = NewSmartChat(FALSE)
  /\ turn = NoTurn
  /\ tool = NoTool

NextLoad ==
  \/ Construct
  \/ Exit

\* the corpus loaded from any pair of metadata files
SpecLoad == InitLoad /\ [][NextLoad]_vars

\* a call of ExpressionAtlasAPI().download_experiment_data; the tools keep
\* nothing between calls, so every call is made from the same state
CallDownloadExperimentData(server, file_types) ==
  /\ tool.op = "none"
  /\ tool' = DownloadExperimentData(server, file_types)
  /\ UNCHANGED <<diskVars, proc, vs, last, chatVars>>

\* a call of the MCP tool identify_expression_files
CallIdentifyExpressionFiles(files_list) ==
  /\ tool.op = "none"
  /\ tool' = [NoTool EXCEPT !.op = "identify_expression_files",
                            !.files_list = files_list,
                            !.identified = McpIdentifyExpressionFiles(files_list)]
  /\ UNCHANGED <<diskVars, proc, vs, last, chatVars>>

InitTools ==
  /\ csvBaseline = MissingFile
  /\ csvDifferential = MissingFile
  /\ cacheFile = NoCache
  /\ stInstall = "ok"
  /\ proc = "down"
  /\ vs = NoObject
  /\ last = NoCall
  /\ chat = NewSmartChat(FALSE)
  /\ turn = NoTurn
  /\ tool = NoTool

NextTools ==
  \/ \E server \in Servers, file_types \in FileTypeRequests :
       CallDownloadExperimentData(server, file_types)
  \/ \E files_list \in FileLists : CallIdentifyExpressionFiles(files_list)

\* calls of the stateless tools
SpecTools == InitTools /\ [][NextTools]_vars

(***************************************************************************)
(* Properties of the index and of search.                                  *)
(***************************************************************************)
SearchReturned == last.op = "search" /\ ~last.raised

BuildCalled == last.op = "build_index"

\* the matrix build_index computes for the corpus in memory, by either method
MatrixOfCorpus(rows) ==
  \/ rows = EncodeRows(vs.experiments)
  \/ /\ FitCorpus(vs.experiments).state = "fitted"
     /\ rows = TfidfRows(FitCorpus(vs.experiments), vs.experiments)

\* C1: build_index without force_rebuild loads the cache file only when the
\* row count stored in it equals the size of the corpus in memory.
C1_ReuseOnlyIfCountMatches ==
  (BuildCalled /\ ~last.force_rebuild /\ last.loaded)
    => cacheFile.num_experiments = Len(vs.experiments)

\* C2: whenever the object holds an index, it has one row per record of the
\* corpus and row i is the vector of record i.
C2_IndexMatchesCorpus ==
  vs.embeddings.built
    => /\ Len(vs.embeddings.rows) = Len(vs.experiments)
       /\ MatrixOfCorpus(vs.embeddings.rows)

\* two scores that are equal numbers
SimEq(a, b) == ~IsNan(a) /\ ~IsNan(b) /\ ~SimLess(a, b) /\ ~SimLess(b, a)

\* C7 as stated: a returned list is in descending order of similarity and,
\* among equal scores, the lower corpus position comes first.
C7_DescendingTiesByIndex ==
  SearchReturned
    => \A i, j \in DOMAIN last.scores :
         i < j => /\ ~SimLess(last.scores[i], last.scores[j])
                  /\ (SimEq(last.scores[i], last.scores[j])
                        => last.indices[i] < last.indices[j])

\* C7 as amended: in a returned list no entry is followed by one with a
\* strictly higher similarity (the order among equal scores is left open).
C7_Descending ==
  SearchReturned
    => \A i, j \in DOMAIN last.scores :
         i < j => ~SimLess(last.scores[i], last.scores[j])

C7_Witness ==
  /\ SearchReturned
  /\ \E i, j \in DOMAIN last.scores : i < j /\ SimLess(last.scores[j], last.scores[i])

\* the record at corpus position i satisfies the filters given to the call
MeetsGivenFilters(i) ==
  /\ Truthy(last.species_filter)
       => Contains(Lower(Str(vs.experiments[i].species)), Lower(last.species_filter))
  /\ Truthy(last.experiment_type)
       => vs.experiments[i].type = last.experiment_type

\* C8: every record of a returned list meets the species filter (as a
\* case-insensitive substring) and the category filter (exactly) of the call.
C8_FiltersRespected ==
  SearchReturned
    => \A r \in DOMAIN last.indices :
         LET rec == Results(vs.experiments, last)[r]
         IN  /\ Truthy(last.species_filter)
                  => Contains(Lower(Str(rec.species)), Lower(last.species_filter))
             /\ Truthy(last.experiment_type) => rec.type = last.experiment_type

C8_Witness ==
  /\ SearchReturned
  /\ Truthy(last.species_filter)
  /\ Truthy(last.experiment_type)
  /\ last.species_filter # Lower(last.species_filter)
  /\ last.indices # <<>>
  /\ \E i \in DOMAIN vs.experiments : ~MeetsGivenFilters(i)

\* C9: a returned list has min(top_k, number of records passing the
\* filters) entries.
C9_ResultBound ==
  SearchReturned
    => Len(last.indices) =
         Min(last.top_k, Cardinality({i \in DOMAIN vs.experiments : MeetsGivenFilters(i)}))

C9_Witness ==
  /\ SearchReturned
  /\ last.top_k >= 1
  /\ Len(last.indices) = last.top_k
  /\ Cardinality({i \in DOMAIN vs.experiments : MeetsGivenFilters(i)}) > last.top_k

\* C10: a build_index without force_rebuild that follows a returned
\* build_index in the same run leaves the matrix as the first call left it,
\* loads it from the cache and runs no encoding pass over the corpus.
C10_SecondBuildReusesCache ==
  (BuildCalled /\ ~last.force_rebuild /\ ~last.raised /\ last.afterBuild)
    => /\ vs.embeddings = last.before
       /\ last.loaded
       /\ ~last.encoded

C10_Witness ==
  /\ BuildCalled /\ ~last.force_rebuild /\ ~last.raised /\ last.afterBuild
  /\ last.loaded
  /\ vs.embeddings.built
  /\ Len(vs.embeddings.rows) >= 2
  /\ MatrixOfCorpus(vs.embeddings.rows)

\* C11: a build_index that encodes (force_rebuild) while the embedding model
\* cannot be initialised, the package or its weights missing, raises
\* nothing and leaves a TF-IDF index with one row per record of the corpus.
C11_FallbackWithoutError ==
  (BuildCalled /\ last.force_rebuild /\ stInstall # "ok")
    => /\ ~last.raised
       /\ vs.model = "none"
       /\ vs.tfidf.state = "fitted"
       /\ vs.embeddings.built
       /\ Len(vs.embeddings.rows) = Len(vs.experiments)

\* C12: build_index never fails on an unreadable cache file, and a
\* build_index that returns leaves a readable cache file behind.
C12_CorruptCacheRebuilds ==
  BuildCalled
    => /\ last.error # "UnpicklingError"
       /\ ~last.raised => cacheFile.exists = "ok"

\* C21: no score of a returned list is undefined: a row or a query of zero
\* norm gives the score 0, not nan.
C21_ZeroNormScoresZero ==
  SearchReturned
    => \A r \in DOMAIN last.scores : ~IsNan(last.scores[r])

\* C22: search over an empty corpus returns an empty list and raises
\* nothing, whatever the query, top_k and filters, with or without an index
\* built or cached before.
C22_EmptyCorpusSearchIsEmpty ==
  (last.op = "search" /\ vs.experiments = <<>>)
    => /\ ~last.raised
       /\ last.indices = <<>>

\* C23: build_index over an empty corpus returns with an index of zero rows
\* and has neither initialised the embedding model nor encoded.
C23_EmptyCorpusBuildsNothing ==
  (BuildCalled /\ vs.experiments = <<>>)
    => /\ ~last.raised
       /\ vs.embeddings.built
       /\ vs.embeddings.rows = <<>>
       /\ vs.model = "none"
       /\ ~last.encoded

\* C24: no loaded record has a missing or empty accession or species (such
\* rows are dropped), and a missing description or factors cell is loaded
\* as the empty string.
C24_RequiredFieldsPresent ==
  proc = "up"
    => \A i \in DOMAIN vs.experiments :
         /\ vs.experiments[i].accession \notin {NaN, None, <<>>}
         /\ vs.experiments[i].species \notin {NaN, None, <<>>}
         /\ vs.experiments[i].description # NaN
         /\ vs.experiments[i].factors # NaN

\* the rows a metadata file holds, none when the file is missing
RowsOf(csv) == IF csv.exists THEN csv.rows ELSE <<>>

\* record i of the corpus is row k of the file, loaded with this type
LoadedFrom(i, csv, k, type) ==
  /\ vs.experiments[i].type = type
  /\ vs.experiments[i].accession = RowsOf(csv)[k].accession
  /\ vs.experiments[i].species = RowsOf(csv)[k].species

\* C25: the corpus holds the rows of the baseline file in file order, then
\* the rows of the differential file in file order; a missing file gives no
\* rows and no error.
C25_BaselineThenDifferential ==
  proc = "up"
    => /\ Len(vs.experiments) = Len(RowsOf(csvBaseline)) + Len(RowsOf(csvDifferential))
       /\ \A k \in DOMAIN RowsOf(csvBaseline) : LoadedFrom(k, csvBaseline, k, BASELINE)
       /\ \A k \in DOMAIN RowsOf(csvDifferential) :
            LoadedFrom(Len(RowsOf(csvBaseline)) + k, csvDifferential, k, DIFFERENTIAL)

C25_Witness ==
  /\ proc = "up"
  /\ Len(RowsOf(csvBaseline)) = 2
  /\ csvBaseline.rows[1].accession # csvBaseline.rows[2].accession
  /\ Len(RowsOf(csvDifferential)) = 2
  /\ csvDifferential.rows[1].accession # csvBaseline.rows[1].accession
  /\ Len(vs.experiments) = 4
  /\ vs.experiments[3].type = DIFFERENTIAL

\* the method of the index held in memory: a build writes its matrix to the
\* cache file with its tag and a load takes the matrix of the file, and the
\* file changes otherwise only between two runs
IndexMethod == cacheFile.method

\* the method search picks for the query (self.model is not None)
QueryMethod(self) ==
  IF self.model # "none" THEN "sentence-transformers" ELSE "tfidf"

\* the last call was a search that came to encode its query
EncodingReached ==
  /\ last.op = "search"
  /\ vs.embeddings.built
  /\ \/ ~last.raised /\ last.indices # <<>>
     \/ last.error \in {"AttributeError", "NotFittedError"}

\* C29: within one run every search encodes its query with the method that
\* produced the index held in memory, whatever builds, cache loads and
\* searches came before.
C29_QueryMethodIsIndexMethod ==
  EncodingReached => QueryMethod(vs) = IndexMethod

\* C30: a search made while the query method differs from the method of the
\* index, or while the matrix and the corpus differ in length, raises and
\* returns no result list.
C30_InconsistentIndexFailsFast ==
  (/\ last.op = "search"
   /\ vs.embeddings.built
   /\ \/ QueryMethod(vs) # IndexMethod
      \/ Len(vs.embeddings.rows) # Len(vs.experiments))
    => last.raised

\* the last call was a build_index that returned without loading the cache
FreshBuilt ==
  /\ BuildCalled
  /\ ~last.raised
  /\ ~last.loaded

\* C32: after a build that did not reuse the cache, the cache file holds the
\* matrix just built, the tag of the method used and the size of the corpus,
\* whatever it held before; a following build_index() without force_rebuild
\* over the same corpus, by this object or by a new one, loads that matrix
\* back, encodes queries with that method and leaves the file as it is.
C32_CacheRoundTrip ==
  FreshBuilt
    => /\ cacheFile = [exists |-> "ok",
                       embeddings |-> vs.embeddings.rows,
                       num_experiments |-> Len(vs.experiments),
                       method |-> QueryMethod(vs)]
       /\ \A self \in {vs, NewVectorSearch(csvBaseline, csvDifferential)} :
            \E again \in {BuildIndex(self, cacheFile, stInstall, FALSE)} :
              /\ ~again.raised
              /\ again.loaded
              /\ again.self.embeddings = vs.embeddings
              /\ again.self.experiments = vs.experiments
              /\ QueryMethod(again.self) = cacheFile.method
              /\ again.cache = cacheFile

\* a forced rebuild over an index that was loaded from a cache of other content
C32_Witness ==
  /\ FreshBuilt
  /\ last.force_rebuild
  /\ last.before.built
  /\ last.before.rows # vs.embeddings.rows
  /\ vs.embeddings.rows # <<>>

\* the last call was a search that encoded its query with the fitted TF-IDF
\* vocabulary against an index tagged tfidf
TfidfQueryEncoded ==
  /\ last.op = "search"
  /\ vs.embeddings.built
  /\ IndexMethod = "tfidf"
  /\ vs.model = "none"
  /\ vs.tfidf.state = "fitted"
  /\ FilteredIndices(vs, last.species_filter, last.experiment_type) # <<>>
  /\ last.error # "IndexError"

\* C33: in TF-IDF mode the vocabulary a query is encoded with is the fitted
\* vocabulary that produced the rows of the index, also when the index was
\* loaded from the cache: the index held is the matrix of a corpus whose fit
\* is the vocabulary in use, and every row has one column per term of it.
C33_QueryVocabularyIsIndexVocabulary ==
  TfidfQueryEncoded
    => /\ \A r \in DOMAIN vs.embeddings.rows :
            Len(vs.embeddings.rows[r]) = Len(vs.tfidf.vocabulary)
       /\ \E corpus \in CorpusUniverse :
            /\ FitOf[corpus] = vs.tfidf
            /\ TfidfRowsOf[corpus] = vs.embeddings.rows

(***************************************************************************)
(* Properties of the conversation.                                         *)
(***************************************************************************)
\* the last step was a turn of the chat
TurnTaken == turn.op = "process_query"

\* the input of the last turn as the handlers compare it
TypedText == Lower(Strip(turn.input))

\* the listing holds a .tsv file of TPMs, FPKMs or counts
HasExpressionFile(listing) ==
  /\ listing.success
  /\ \E i \in DOMAIN listing.files :
       LET name == Lower(listing.files[i].name)
       IN  /\ EndsWith(name, TSV)
           /\ \/ Contains(name, <<"t","p","m">>)
              \/ Contains(name, <<"f","p","k","m">>)
              \/ Contains(name, <<"c","o","u","n","t">>)

\* the session is as _reset_state leaves it
SessionCleared ==
  /\ chat.state = "INITIAL"
  /\ chat.selected_experiment = None
  /\ chat.current_recommendations = <<>>

\* the last turn was a number within the candidate list, typed in SELECTING
NumericChoice ==
  /\ TurnTaken
  /\ turn.before.state = "SELECTING"
  /\ IsIntLiteral(TypedText)
  /\ 1 <= IntValue(TypedText)
  /\ IntValue(TypedText) <= Len(turn.before.current_recommendations)

ChosenAccession == turn.before.current_recommendations[IntValue(TypedText)].accession

\* C3 as stated: in SELECTING an integer n within the candidate list sets
\* the selection to the accession of candidate n and moves to CONFIRMING.
C3_ChoiceConfirms ==
  NumericChoice
    => /\ chat.selected_experiment = ChosenAccession
       /\ chat.state = "CONFIRMING"

\* C3 as amended: in SELECTING an integer n within the candidate list moves
\* to CONFIRMING with the accession of candidate n selected and the
\* candidates kept when the file listing of that experiment succeeds and
\* holds an expression file, and otherwise clears the session into INITIAL.
C3_ChoiceConfirmsIfListed ==
  NumericChoice
    => IF HasExpressionFile(turn.effects.listing)
       THEN /\ chat.state = "CONFIRMING"
            /\ chat.selected_experiment = ChosenAccession
            /\ chat.current_recommendations = turn.before.current_recommendations
       ELSE SessionCleared

C3_Witness ==
  /\ NumericChoice
  /\ IntValue(TypedText) = 2
  /\ chat.state = "CONFIRMING"
  /\ chat.selected_experiment # turn.before.current_recommendations[1].accession

\* the last turn was an affirmative reply typed in CONFIRMING
AffirmativeReply ==
  /\ TurnTaken
  /\ turn.before.state = "CONFIRMING"
  /\ TypedText \in {<<"y","e","s">>, <<"y">>, <<"d","o","w","n","l","o","a","d">>}

\* C4: an affirmative reply in CONFIRMING calls the download once, for the
\* selected experiment, and the session is then cleared into INITIAL; no
\* other turn calls the download.
C4_DownloadOnceThenReset ==
  TurnTaken
    => IF AffirmativeReply
       THEN /\ turn.effects.downloads = 1
            /\ turn.effects.download_id = turn.before.selected_experiment
            /\ SessionCleared
       ELSE turn.effects.downloads = 0

\* the last turn was a query in INITIAL without an experiment id for which
\* get_top_experiments returned an empty list
ZeroCandidates ==
  /\ TurnTaken
  /\ turn.before.state = "INITIAL"
  /\ turn.effects.found = 0

\* C5 as stated: a query in INITIAL that finds no candidate leaves the
\* session in INITIAL without selection or candidates and gives the
\* no-match outcome, not an error.
C5_NoMatchStaysInitial ==
  ZeroCandidates
    => /\ SessionCleared
       /\ turn.effects.tag = "no_match"
       /\ ~turn.effects.raised

\* C5 as amended: a query in INITIAL that finds no candidate raises no error
\* and stores no candidates; it falls back to a recommended experiment (the
\* known experiment of the species, else the first popular one of the
\* type), so that no no-match outcome is given, and shows its details: the
\* session moves to CONFIRMING with that experiment selected when its file
\* listing holds an expression file, and is cleared into INITIAL otherwise.
C5_ZeroCandidatesFallBack ==
  ZeroCandidates
    => /\ ~turn.effects.raised
       /\ turn.effects.tag # "no_match"
       /\ turn.effects.recommended \in {E_MTAB_513, E_MTAB_5214, E_GEOD_21860}
       /\ chat.current_recommendations = <<>>
       /\ IF HasExpressionFile(turn.effects.listing)
          THEN /\ chat.state = "CONFIRMING"
               /\ chat.selected_experiment = turn.effects.recommended
          ELSE SessionCleared

C5_Witness ==
  /\ ZeroCandidates
  /\ chat.vector_search
  /\ turn.effects.rankings = 2
  /\ chat.state = "CONFIRMING"
  /\ chat.selected_experiment = E_MTAB_513

\* the states a turn with this input can end in, over the given listings
\* and downloads
NextStates(user_input, listings, downloads) ==
  {o.chat.state :
     o \in UNION {ProcessQueryOutcomes(chat, vs, user_input, listing, download) :
                    listing \in listings, download \in downloads}}

StartOverWords == {<<"b","a","c","k">>, <<"n","e","w">>, <<"c","a","n","c","e","l">>}

\* the text names one of the first n candidates: a decimal numeral of a
\* number in 1..n, leading zeros allowed as int() allows them
IsChoiceOf(text, n) ==
  /\ text # <<>>
  /\ \A i \in DOMAIN text : text[i] \in Digits
  /\ \E k \in 1..n :
       /\ k <= 9
       /\ text[Len(text)] = DigitChars[k + 1]
       /\ \A i \in 1..(Len(text) - 1) : text[i] = "0"

\* this step is a turn typed in SELECTING that is neither a start-over word
\* nor the number of a candidate
InvalidChoiceStep ==
  /\ proc = "chat"
  /\ turn'.op = "process_query"
  /\ chat.state = "SELECTING"
  /\ Lower(Strip(turn'.input)) \notin StartOverWords
  /\ ~IsChoiceOf(Lower(Strip(turn'.input)), Len(chat.current_recommendations))

\* C13: in SELECTING an input that is neither back/new/cancel nor a number
\* within the candidate list changes nothing of the session (state,
\* candidates, last query, selection) and only re-prompts.
C13_InvalidChoiceKeepsSession ==
  [][InvalidChoiceStep
       => /\ chat' = chat
          /\ turn'.effects.tag = "invalid_choice"
          /\ turn'.effects.downloads = 0
          /\ turn'.effects.listing = NoFtp]_vars

C13_Witness ==
  /\ TurnTaken
  /\ turn.before.state = "SELECTING"
  /\ TypedText = <<"5">>
  /\ turn.effects.tag = "invalid_choice"
  /\ chat.state = "SELECTING"
  /\ chat.current_recommendations # <<>>
  /\ chat.current_query.set

\* the last turn was back, new or cancel typed in SELECTING
StartOverTyped ==
  /\ TurnTaken
  /\ turn.before.state = "SELECTING"
  /\ TypedText \in StartOverWords

\* C14: in SELECTING the input back, new or cancel, in any case and with
\* blanks around it, clears every field of the session (last query,
\* candidates, selection, listing) and returns it to INITIAL.
C14_StartOverClearsSession ==
  StartOverTyped
    => /\ chat.state = "INITIAL"
       /\ chat.current_query = NoQuery
       /\ chat.current_recommendations = <<>>
       /\ chat.selected_experiment = None
       /\ chat.ftp_result = NoFtp
       /\ chat.identified_files = NoIdentified
       /\ turn.effects.tag = "reset"

C14_Witness ==
  /\ StartOverTyped
  /\ turn.input = <<" ","B","a","c","k"," ">>
  /\ turn.before.current_recommendations # <<>>
  /\ chat.state = "INITIAL"
  /\ chat.current_recommendations = <<>>


\* the last turn was a negative reply typed in CONFIRMING
NegativeReply ==
  /\ TurnTaken
  /\ turn.before.state = "CONFIRMING"
  /\ TypedText \in {<<"n","o">>, <<"n">>, <<"s","k","i","p">>}

\* C15: a negative reply (no, n, skip) in CONFIRMING clears the session into
\* INITIAL, selection and candidates cleared, and the download is not
\* called.
C15_NegativeSkipsDownload ==
  NegativeReply
    => /\ chat.state = "INITIAL"
       /\ chat.selected_experiment = None
       /\ chat.current_recommendations = <<>>
       /\ turn.effects.downloads = 0
       /\ turn.effects.tag = "skipped"

C15_Witness ==
  /\ NegativeReply
  /\ turn.input = <<"N">>
  /\ turn.before.current_recommendations # <<>>
  /\ turn.before.selected_experiment # None
  /\ chat.state = "INITIAL"
  /\ turn.effects.downloads = 0

\* C16: after an affirmative reply in CONFIRMING the session is in INITIAL
\* whatever the download did (files, nothing, or an error raised inside
\* it), never in CONFIRMING or SELECTING, and the download was called once,
\* not again.
C16_AffirmativeEndsInInitial ==
  AffirmativeReply
    => /\ chat.state = "INITIAL"
       /\ chat.state \notin {"CONFIRMING", "SELECTING"}
       /\ turn.effects.downloads = 1

\* the last turn was back or cancel typed in CONFIRMING
BackTyped ==
  /\ TurnTaken
  /\ turn.before.state = "CONFIRMING"
  /\ TypedText \in {<<"b","a","c","k">>, <<"c","a","n","c","e","l">>}

\* C17: back or cancel in CONFIRMING returns to SELECTING with the same
\* candidate list, records and order, when there are candidates, and clears
\* the session into INITIAL when there are none; the download is not called.
C17_BackReturnsToCandidates ==
  BackTyped
    => /\ turn.effects.downloads = 0
       /\ IF turn.before.current_recommendations # <<>>
          THEN /\ chat.state = "SELECTING"
               /\ chat.current_recommendations = turn.before.current_recommendations
          ELSE SessionCleared

C17_Witness ==
  /\ BackTyped
  /\ Len(turn.before.current_recommendations) >= 2
  /\ chat.state = "SELECTING"
  /\ chat.current_recommendations = turn.before.current_recommendations

\* the replies _handle_download_confirmation knows
ConfirmationWords ==
  {<<"b","a","c","k">>, <<"c","a","n","c","e","l">>,
   <<"y","e","s">>, <<"y">>, <<"d","o","w","n","l","o","a","d">>,
   <<"n","o">>, <<"n">>, <<"s","k","i","p">>}

\* this step is a turn typed in CONFIRMING that is none of these replies
UnknownReplyStep ==
  /\ proc = "chat"
  /\ turn'.op = "process_query"
  /\ chat.state = "CONFIRMING"
  /\ Lower(Strip(turn'.input)) \notin ConfirmationWords

\* C18: in CONFIRMING an input that is not back/cancel, affirmative or
\* negative changes nothing of the session (state, selection, candidates),
\* calls no download and only re-prompts.
C18_UnknownReplyKeepsSession ==
  [][UnknownReplyStep
       => /\ chat' = chat
          /\ turn'.effects.tag = "reprompt"
          /\ turn'.effects.downloads = 0]_vars

C18_Witness ==
  /\ TurnTaken
  /\ turn.before.state = "CONFIRMING"
  /\ TypedText = <<"n","e","w">>
  /\ turn.effects.tag = "reprompt"
  /\ chat.state = "CONFIRMING"
  /\ chat.selected_experiment = turn.before.selected_experiment
  /\ chat.current_recommendations # <<>>


\* the last turn was a query in INITIAL for which get_top_experiments
\* returned candidates
CandidatesFound ==
  /\ TurnTaken
  /\ turn.before.state = "INITIAL"
  /\ turn.effects.found > 0

\* the lists search_by_keywords returns for the last input with top_k = 3
SearchedTopThree ==
  UNION {{Results(vs.experiments, o) :
            o \in {o \in SearchByKeywords(vs, parsed.species, parsed.keywords,
                                          parsed.experiment_type, 3) : ~o.raised}} :
           parsed \in ParseOf[turn.input]}

\* C19: a query in INITIAL without an experiment id for which
\* search_by_keywords with top_k = 3 returns candidates stores that very
\* list, at most 3 entries in rank order, as the candidates and moves the
\* session to SELECTING.
C19_CandidatesStored ==
  CandidatesFound
    => /\ chat.state = "SELECTING"
       /\ chat.current_recommendations \in SearchedTopThree
       /\ Len(chat.current_recommendations) <= 3
       /\ \A r \in DOMAIN chat.current_recommendations :
            chat.current_recommendations[r].rank = r
       /\ chat.selected_experiment = None

C19_Witness ==
  /\ CandidatesFound
  /\ chat.state = "SELECTING"
  /\ Len(chat.current_recommendations) = 3
  /\ Len(vs.experiments) > 3
  /\ chat.current_recommendations[1].accession # chat.current_recommendations[2].accession


\* the experiment ids written in a text, in upper case
IdsTyped(text) ==
  {Upper(SubSeq(text, m[1], m[2])) :
     m \in {m \in (DOMAIN text) \X (DOMAIN text) : IsIdSpan(text, m[1], m[2])}}

\* the last turn was typed in INITIAL and names an experiment id
ExplicitIdTyped ==
  /\ TurnTaken
  /\ turn.before.state = "INITIAL"
  /\ IdsTyped(turn.input) # {}

\* C20: a query in INITIAL that names an experiment id runs no search (the
\* ranker is not called and the candidates stay empty), selects that id and
\* goes on as after a numeric choice: the file listing of the experiment is
\* fetched, and the session is in CONFIRMING with the id selected when the
\* listing holds an expression file and cleared into INITIAL otherwise.
C20_ExplicitIdSkipsSearch ==
  ExplicitIdTyped
    => /\ turn.effects.rankings = 0
       /\ turn.effects.found < 0
       /\ chat.current_recommendations = <<>>
       /\ turn.effects.listing.set
       /\ IF HasExpressionFile(turn.effects.listing)
          THEN /\ chat.state = "CONFIRMING"
               /\ chat.selected_experiment \in IdsTyped(turn.input)
          ELSE SessionCleared

C20_Witness ==
  /\ ExplicitIdTyped
  /\ chat.vector_search
  /\ Len(vs.experiments) > 0
  /\ turn.effects.rankings = 0
  /\ chat.state = "CONFIRMING"
  /\ chat.selected_experiment = AccA1
  /\ chat.current_recommendations = <<>>


\* the parts joined by single spaces
RECURSIVE Spaced(_)
Spaced(parts) ==
  IF parts = <<>> THEN <<>>
  ELSE IF Len(parts) = 1 THEN parts[1]
  ELSE parts[1] \o <<" ">> \o Spaced(Tail(parts))

\* the last turn called the ranker
RankerCalled ==
  /\ TurnTaken
  /\ chat.vector_search
  /\ turn.effects.rankings >= 1

\* the keyword lists the equivalence is tried with: those parsed from the
\* last input and two lists of two keywords
KeywordLists ==
  {parsed.keywords : parsed \in ParseOf[turn.input]}
    \cup {<<<<"l","e","a","f">>, <<"r","o","o","t">>>>,
          <<<<"r","o","o","t">>, <<"l","e","a","f">>>>}

\* C26: search_by_keywords(species, keywords, category, top_k) gives what
\* search gives for the query made of the species followed by the keywords
\* in their order, joined by single spaces, with the species as species
\* filter, the category as category filter and the same top_k.
C26_KeywordsSearchIsSearch ==
  RankerCalled
    => \A species \in {None, MUS_MUSCULUS}, keywords \in KeywordLists, top_k \in {1, 3} :
         SearchByKeywords(vs, species, keywords, BASELINE, top_k)
           = SearchIndexed(vs,
                           Spaced((IF species = None THEN <<>> ELSE <<species>>) \o keywords),
                           top_k, species, BASELINE)

C26_Witness ==
  /\ RankerCalled
  /\ vs.model = "none"
  /\ turn.effects.found >= 2
  /\ \E o \in SearchByKeywords(vs, MUS_MUSCULUS, <<<<"l","e","a","f">>>>, BASELINE, 3) :
       /\ ~o.raised
       /\ Len(o.indices) >= 2
       /\ o.scores[1] # o.scores[2]


\* the outcomes of process_query(user_input) on the session as it stands,
\* for every listing and every download the servers can answer with
TurnsOn(user_input) ==
  UNION {ProcessQueryOutcomes(chat, vs, user_input, env[1], env[2]) :
           env \in ListingsFor(chat) \X DownloadsFor(chat)}

\* the last turn was taken in SELECTING or CONFIRMING and reset the session
JustReset ==
  /\ TurnTaken
  /\ turn.before.state # "INITIAL"
  /\ chat.state = "INITIAL"

\* C27: the session has no terminal state: in every reachable state of a
\* running chat the state is INITIAL, SELECTING or CONFIRMING, out of
\* SELECTING and CONFIRMING some input brings the session to INITIAL
\* whatever the servers answer, and after a reset every input is processed
\* as a new query (it is parsed and stored, or the turn ends in a reset).
C27_NoTerminalState ==
  proc = "chat"
    => /\ chat.state \in {"INITIAL", "SELECTING", "CONFIRMING"}
       /\ \/ chat.state = "INITIAL"
          \/ \E user_input \in UserInputs :
               \A o \in TurnsOn(user_input) :
                 /\ ~o.effects.raised
                 /\ o.chat.state = "INITIAL"
       /\ JustReset
            => \A user_input \in UserInputs :
                 \E parsed \in {ParseOf[user_input]} :
                   \E outcomes \in {TurnsOn(user_input)} :
                     /\ outcomes # {}
                     /\ \A o \in outcomes :
                          /\ ~o.effects.raised
                          /\ \/ o.chat.current_query \in parsed
                             \/ o.chat = ResetState(o.chat)

C27_Witness ==
  /\ proc = "chat"
  /\ JustReset
  /\ turn.before.state = "CONFIRMING"
  /\ chat.vector_search
  /\ \E user_input \in UserInputs :
       \E o \in TurnsOn(user_input) : o.chat.state = "SELECTING"


\* C28: whenever the session of a running chat is in INITIAL between turns,
\* the list of candidates is empty.
C28_InitialHasNoCandidates ==
  (proc = "chat" /\ chat.state = "INITIAL")
    => chat.current_recommendations = <<>>

C28_Witness ==
  /\ proc = "chat"
  /\ JustReset
  /\ turn.before.current_recommendations # <<>>
  /\ chat.current_recommendations = <<>>


\* a turn of a running chat taken in SELECTING or CONFIRMING
SessionTurnStep ==
  /\ proc = "chat"
  /\ turn'.op = "process_query"
  /\ chat.state # "INITIAL"

\* C31: a turn processed in SELECTING or CONFIRMING never calls the ranker
\* (so the ranker is called only for a new query in INITIAL) and changes
\* nothing but the session: the corpus, the index held by the ranker and the
\* files of the cache directory are what they were.
C31_SessionTurnsLeaveRankerAlone ==
  [][SessionTurnStep
       => /\ turn'.effects.rankings = 0
          /\ vs' = vs
          /\ cacheFile' = cacheFile
          /\ csvBaseline' = csvBaseline
          /\ csvDifferential' = csvDifferential]_vars

\* a turn taken in SELECTING whose input would have been searched for had it
\* been a new query
C31_Witness ==
  /\ TurnTaken
  /\ chat.vector_search
  /\ turn.before.state = "SELECTING"
  /\ turn.effects.rankings = 0
  /\ \E parsed \in ParseOf[turn.input] : ~Truthy(parsed.experiment_id)


\* the last turn asked the server for the files of the selected experiment
ListingMade == TurnTaken /\ turn.effects.listing.set

\* the last turn brought the session into CONFIRMING
EnteredConfirming ==
  /\ TurnTaken
  /\ turn.before.state # "CONFIRMING"
  /\ chat.state = "CONFIRMING"

\* C34: the session enters CONFIRMING only in a turn whose file listing
\* succeeded and in which a recommended expression file was identified; a
\* turn whose listing fails or has no recommended file ends in INITIAL with
\* selection and candidates cleared.
C34_ConfirmingNeedsRecommendedFile ==
  /\ EnteredConfirming
       => /\ ListingMade
          /\ turn.effects.listing.success
          /\ chat.ftp_result = turn.effects.listing
          /\ chat.identified_files = IdentifyExpressionFiles(turn.effects.listing.files)
          /\ chat.identified_files.recommended # NoFile
  /\ (/\ ListingMade
      /\ \/ ~turn.effects.listing.success
         \/ IdentifyExpressionFiles(turn.effects.listing.files).recommended = NoFile)
       => /\ chat.state = "INITIAL"
          /\ chat.selected_experiment = None
          /\ chat.current_recommendations = <<>>

\* a candidate was picked, its listing succeeded but held no expression file
C34_Witness ==
  /\ ListingMade
  /\ turn.before.state = "SELECTING"
  /\ turn.before.current_recommendations # <<>>
  /\ turn.effects.listing.success
  /\ IdentifyExpressionFiles(turn.effects.listing.files).recommended = NoFile
  /\ chat.state = "INITIAL"


\* the accessions of the candidates held
CandidateAccessions ==
  {chat.current_recommendations[k].accession : k \in DOMAIN chat.current_recommendations}

\* C35: whenever the session is in CONFIRMING a selection is set, and if
\* candidates are held the selection is the accession of one of them.
C35_ConfirmingHasSelection ==
  (proc = "chat" /\ chat.state = "CONFIRMING")
    => /\ chat.selected_experiment # None
       /\ chat.current_recommendations # <<>>
            => chat.selected_experiment \in CandidateAccessions

\* the second of several candidates was picked and CONFIRMING was entered
C35_Witness ==
  /\ EnteredConfirming
  /\ turn.before.state = "SELECTING"
  /\ Len(chat.current_recommendations) >= 2
  /\ chat.selected_experiment = chat.current_recommendations[2].accession
  /\ chat.selected_experiment # chat.current_recommendations[1].accession


\* C36: whenever the session is in SELECTING it holds between one and three
\* candidates, and they are the list the most recent search returned: a turn
\* that enters SELECTING from INITIAL stores what the search for its query
\* returned, and a turn taken in SELECTING or CONFIRMING that ends in
\* SELECTING leaves the list as it was.
C36_SelectingHoldsLastSearch ==
  [][(proc' = "chat" /\ chat'.state = "SELECTING")
       => /\ Len(chat'.current_recommendations) \in 1..3
          /\ IF chat.state = "INITIAL"
             THEN /\ turn'.effects.rankings = 1
                  /\ chat'.current_query \in ParseOf[turn'.input]
                  /\ chat'.current_recommendations
                       \in GetTopExperiments(chat.vector_search, vs, chat'.current_query, 3)
             ELSE chat'.current_recommendations = chat.current_recommendations]_vars

\* SELECTING entered again from CONFIRMING with three candidates held
C36_Witness ==
  /\ TurnTaken
  /\ turn.before.state = "CONFIRMING"
  /\ chat.state = "SELECTING"
  /\ Len(chat.current_recommendations) = 3
  /\ chat.current_recommendations = turn.before.current_recommendations


\* the first of the sources that is not None
RECURSIVE FirstAvailable(_)
FirstAvailable(sources) ==
  IF sources = <<>> THEN None
  ELSE IF Head(sources) # None THEN Head(sources)
  ELSE FirstAvailable(Tail(sources))

\* the accession of the first result of a search, None if it raised or
\* returned nothing
TopAccession(self, o) ==
  IF o.raised \/ o.indices = <<>> THEN None
  ELSE self.experiments[o.indices[1]].accession

PopularFirst(experiment_type) ==
  IF GetPopularExperiments(experiment_type) = <<>> THEN None
  ELSE GetPopularExperiments(experiment_type)[1]

\* the last turn found no candidate and asked for one recommendation
FallbackTaken ==
  /\ TurnTaken
  /\ turn.before.state = "INITIAL"
  /\ turn.effects.found = 0

\* the queries recommend_experiment is tried with
ParsedSamples ==
  {[NoQuery EXCEPT !.set = TRUE, !.species = species, !.keywords = keywords,
                   !.experiment_type = experiment_type] :
     species \in {None, HOMO_SAPIENS, MUS_MUSCULUS, RATTUS_NORVEGICUS},
     keywords \in {<<>>, <<<<"l","e","a","f">>>>},
     experiment_type \in {BASELINE, DIFFERENTIAL, None}}

\* the rankers it is tried on: the one of the chat and the same with a
\* matrix that has lost its rows, on which a search over a corpus raises
RankerSamples ==
  IF chat.vector_search
  THEN {vs, [vs EXCEPT !.embeddings = [built |-> TRUE, rows |-> <<>>]]}
  ELSE {vs}

\* C37: recommend_experiment returns the first available of: the accession
\* of the first result of the vector search, the known experiment of the
\* species and experiment type, the first popular experiment of the
\* experiment type, and otherwise None; a vector search that is missing,
\* raises or returns nothing passes on to the next source.
C37_RecommendationOrder ==
  FallbackTaken
    => \A parsed \in ParsedSamples, self \in RankerSamples :
         RecommendExperiment(chat.vector_search, self, parsed)
           = {FirstAvailable(<<TopAccession(self, o),
                               KNOWN_EXPERIMENTS(parsed.species, parsed.experiment_type),
                               PopularFirst(parsed.experiment_type)>>) :
                o \in IF chat.vector_search
                      THEN SearchIndexed(self,
                                         Spaced((IF parsed.species = None THEN <<>>
                                                 ELSE <<parsed.species>>) \o parsed.keywords),
                                         1, parsed.species, parsed.experiment_type)
                      ELSE {SearchRaise("unavailable")}}

\* a turn that fell back to a popular experiment while the ranker, asked
\* without a species, has a first result, and raises on the shortened matrix
C37_Witness ==
  /\ FallbackTaken
  /\ chat.vector_search
  /\ turn.effects.recommended = E_MTAB_513
  /\ \E o \in SearchIndexed(vs, <<>>, 1, None, BASELINE) : ~o.raised /\ o.indices # <<>>
  /\ \E self \in RankerSamples :
       \E o \in SearchIndexed(self, <<>>, 1, None, BASELINE) : o.raised

(***************************************************************************)
(* Properties of the stateless tools.                                      *)
(***************************************************************************)
DownloadReturned == tool.op = "download_experiment_data" /\ ~tool.raised

\* the file types the caller asked for: all of the table when file_types is
\* absent or empty
AskedTypes ==
  IF Truthy(tool.file_types) THEN Range(tool.file_types) ELSE Range(FILE_PATTERNS)

RequestsFor(file_type, endpoint) ==
  SelectSeq(tool.requests, LAMBDA r : r.file_type = file_type /\ r.endpoint = endpoint)

\* some web request for the file type was answered with 200
WebSucceeded(file_type) ==
  /\ file_type \in RESOURCE_MAP
  /\ \E k \in 1..Len(RequestsFor(file_type, "web")) : tool.server.web[file_type][k] = "200"

MirrorSucceeded(file_type) ==
  /\ RequestsFor(file_type, "mirror") # <<>>
  /\ tool.server.mirror[file_type] = "200"

\* the requests of one file type: the web endpoint first, one experiment
\* type after the other up to the first 200, then the mirror, once, only if
\* no web request succeeded; a type without web resource goes to the mirror
WebThenMirror(file_type) ==
  /\ SelectSeq(tool.requests, LAMBDA r : r.file_type = file_type)
       = RequestsFor(file_type, "web") \o RequestsFor(file_type, "mirror")
  /\ \A k \in 1..Len(RequestsFor(file_type, "web")) :
       /\ RequestsFor(file_type, "web")[k].exp_type = ExperimentTypes[k]
       /\ k < Len(RequestsFor(file_type, "web")) => tool.server.web[file_type][k] # "200"
  /\ IF file_type \in RESOURCE_MAP
     THEN \/ WebSucceeded(file_type)
          \/ Len(RequestsFor(file_type, "web")) = Len(ExperimentTypes)
     ELSE RequestsFor(file_type, "web") = <<>>
  /\ Len(RequestsFor(file_type, "mirror")) = IF WebSucceeded(file_type) THEN 0 ELSE 1

Identified == tool.op = "identify_expression_files"

\* the categories of the MCP tool and the order in which a file is recommended
McpCategories == {"tpms", "fpkms", "counts", "analytics", "metadata", "other"}

McpPriority == <<"tpms", "fpkms", "counts", "analytics">>

\* how often an item occurs in a list
Occurrences(file_item, files_list) ==
  Cardinality({k \in DOMAIN files_list : files_list[k] = file_item})

\* C39: identify_expression_files of the MCP server puts every file of its
\* input into exactly one category, and recommends the first file of the
\* first non-empty category in the order tpms, fpkms, counts, analytics;
\* when the four are empty the recommended file and type are None.
C39_OneCategoryAndPriority ==
  Identified
    => /\ \A file_item \in Range(tool.files_list) :
            \E category \in McpCategories :
              /\ Occurrences(file_item, tool.identified.categorized_files[category])
                   = Occurrences(file_item, tool.files_list)
              /\ \A c \in McpCategories \ {category} :
                   Occurrences(file_item, tool.identified.categorized_files[c]) = 0
       /\ \A category \in McpCategories :
            Range(tool.identified.categorized_files[category]) \subseteq Range(tool.files_list)
       /\ IF \A k \in DOMAIN McpPriority :
               tool.identified.categorized_files[McpPriority[k]] = <<>>
          THEN /\ tool.identified.recommended_file = NoFile
               /\ tool.identified.recommended_type = "none"
          ELSE \E k \in DOMAIN McpPriority :
                 /\ \A j \in 1..(k - 1) :
                      tool.identified.categorized_files[McpPriority[j]] = <<>>
                 /\ tool.identified.categorized_files[McpPriority[k]] # <<>>
                 /\ tool.identified.recommended_type = McpPriority[k]
                 /\ tool.identified.recommended_file
                      = tool.identified.categorized_files[McpPriority[k]][1]

\* FPKM and raw-count files without a TPM file: the first FPKM file is
\* recommended although a count file comes first in the list
C39_Witness ==
  /\ Identified
  /\ Len(tool.files_list) = 3
  /\ tool.identified.categorized_files.tpms = <<>>
  /\ tool.identified.categorized_files.counts # <<>>
  /\ tool.identified.categorized_files.other # <<>>
  /\ tool.identified.recommended_type = "fpkms"
  /\ tool.identified.recommended_file = tool.files_list[3]

====
